---- MODULE Spec2Model ----
(***************************************************************************)
(* Model of the histogram aggregation kernel (BinSumsInteraction) and of   *)
(* the RMSE gradient initializers of the EBM native core.                  *)
(*                                                                         *)
(* Numbers.  FloatFast values are modelled as integers: a gradient, a      *)
(* Hessian or a bin sum is a count of quarters (the value 0.25 is 1, the   *)
(* value 1.0 is 4), a weight is a plain integer.  On that grid every sum   *)
(* and every product the kernel forms is exact, so the model says nothing  *)
(* about rounding, NaN or infinity.                                        *)
(*                                                                         *)
(* Pointers.  A pointer into an array is modelled as the 0-based offset of *)
(* the element it points to; arrays are TLA+ sequences (1-based), so the   *)
(* element at offset p of a is a[p + 1].  A null array is nullptr.         *)
(***************************************************************************)
EXTENDS Integers, Sequences, FiniteSets, TLC

VARIABLES
    pc,                   \* position of the modelled call
    cRuntimeClasses,      \* InteractionCore::GetCountClasses()
    pTerm,                \* the term: per dimension, GetCountBins() of its feature
    pDataSet,             \* DataSetInteraction: cSamples, aInputData, aWeights, aGradientsAndHessians
    aInvoked,             \* the kernel instantiations invoked so far, in order
    cCompilerClasses,     \* template parameter of the running kernel
    cCompilerDimensions,  \* template parameter of the running kernel
    iSample,              \* kernel loop counter
    pGradientAndHessian,  \* kernel cursor into the gradient/Hessian buffer
    pWeight,              \* kernel cursor into the weight array
    aBins,                \* the bin tensor (InteractionShell::GetBinBaseFast)
    NDEBUG,               \* the build: TRUE compiles every EBM_ASSERT out
    direction,            \* initializer argument: +1 training pass, -1 validation pass
    aBag,                 \* initializer argument: the replication bag, or nullptr
    aInitScores,          \* initializer argument: the init scores, or nullptr
    aTargets,             \* the regression targets (GetDataSetSharedTarget)
    aSubsets,             \* per subset, its gradient buffer
    aWrites,              \* per subset and slot, how often the slot was written
    aSubsetWeights,       \* per subset, GetWeights(): its per-slot weights, or nullptr
    pSampleReplication,   \* initializer cursor into aBag
    pTargetData,          \* initializer cursor into aTargets
    pInitScore,           \* initializer cursor into aInitScores
    pSubset,              \* initializer cursor into the subsets
    sweepArgs,            \* the arguments (bClassification, cScores) of the tree-sweep size calls
    bOverflowTreeSweep,   \* what IsOverflowTreeSweepSize returned, <<>> before the call
    cBytesPerTreeSweep,   \* what GetTreeSweepSize returned, <<>> before the call
    g_allTestsHidden,     \* test harness: the registered test cases (main's copy once main runs)
    iTestCase,            \* main: position of the range-for over the test cases
    bPassed,              \* main: no test case has failed so far
    exitCode,             \* the exit code of the test process, <<>> while it runs
    m_cClasses,           \* TestBoost: the output type
    m_iZeroClassificationLogit, \* TestBoost: the reference class, or -1
    m_termBins,           \* TestBoost: per term, m_countBins of each of its features
    aBoostCalls,          \* the TestBoost::Boost calls made, with their arguments
    aApiCalls,            \* the libebm calls TestBoost::Boost issued, in order
    aBestTermScores,      \* the booster's best term scores, per term
    termScoreCall,        \* arguments of the GetBestTermScore call, <<>> before it
    termScore,            \* what GetBestTermScore returned, <<>> before it
    approxArgs,           \* the two values and the percentage a test compares, <<>> if none
    aApproxCalls,         \* the IsApproxEqual calls made: arguments and result
    g_countEqualityFailures, \* the counter of failed comparisons
    aWorkers,             \* per worker of a partitioned aggregation: its slice and kernel state
    aReduced,             \* the reducer: the workers reduced so far and the summed tensor
    strengthTensor,       \* the aggregated tensor CalcInteractionStrength works on, <<>> if none
    avgInteractionStrength \* what TestCalcInteractionStrength returned, <<>> before it

\* the variables of the kernel only
kernelVars == <<cRuntimeClasses, pTerm, pDataSet, aInvoked, cCompilerClasses,
                cCompilerDimensions, iSample, pWeight, aBins, NDEBUG>>

\* the variables of the initializers only
initializerVars == <<direction, aBag, aInitScores, aTargets, aSubsets, aWrites, aSubsetWeights,
                     pSampleReplication, pTargetData, pInitScore, pSubset>>

\* the variables of the tree-sweep size functions only
treeSweepVars == <<sweepArgs, bOverflowTreeSweep, cBytesPerTreeSweep>>

\* the variables of the test harness's main only
mainVars == <<g_allTestsHidden, iTestCase, bPassed>>

\* the TestBoost object and the calls made on it
testBoostVars == <<m_cClasses, m_iZeroClassificationLogit, m_termBins, aBoostCalls,
                   aApiCalls, aBestTermScores, termScoreCall, termScore>>

\* the variables of IsApproxEqual and its caller
approxVars == <<approxArgs, aApproxCalls, g_countEqualityFailures>>

\* the variables of a partitioned aggregation
workerVars == <<aWorkers, aReduced>>

\* the variables of the interaction strength call
strengthVars == <<strengthTensor, avgInteractionStrength>>

\* the variables of the components that come last in this module
laterVars == <<approxVars, workerVars, strengthVars>>

\* the variables of the other components, which the kernel and the
\* initializers leave alone
otherVars == <<treeSweepVars, mainVars, exitCode, testBoostVars, laterVars>>

vars == <<pc, pGradientAndHessian, kernelVars, initializerVars, otherVars>>

---------------------------------------------------------------------------
(* Bounds of the model *)

\* largest number of samples of a dataset
MaxSamples == 2
\* largest class count with a specialized kernel (K_MAX)
k_cCompilerClassesMax == 2
\* largest dimension count with a specialized kernel (D_MAX)
k_cCompilerOptimizedCountDimensionsMax == 2
\* largest dimension count of a term
k_cDimensionsMax == 3
\* largest number of entries of a bag (samples of the shared dataset)
MaxBagLength == 3
\* largest multiplicity of a bag entry
MaxReplication == 2
\* largest subset size the gradient slots are chunked by
MaxSubsetSamples == 2

---------------------------------------------------------------------------
(* Constants and helpers of ebm_internal.hpp *)

k_regression == -2
k_dynamicClassification == 0
k_dynamicDimensions == 0
nullptr == <<>>

IsClassification(cClasses) == 0 <= cClasses
IsRegression(cClasses) == cClasses = k_regression

GetCountScores(cClasses) == IF cClasses <= 2 THEN 1 ELSE cClasses

GET_COUNT_CLASSES(cCompilerClassesArg, cRuntimeClassesArg) ==
    IF cCompilerClassesArg = k_dynamicClassification
    THEN cRuntimeClassesArg ELSE cCompilerClassesArg

GET_DIMENSIONS(cCompilerDimensionsArg, cRuntimeDimensionsArg) ==
    IF cCompilerDimensionsArg = k_dynamicDimensions
    THEN cRuntimeDimensionsArg ELSE cCompilerDimensionsArg

Min(a, b) == IF a <= b THEN a ELSE b

RECURSIVE SumSeq(_)
SumSeq(s) == IF s = <<>> THEN 0 ELSE Head(s) + SumSeq(Tail(s))

RECURSIVE ProdSeq(_)
ProdSeq(s) == IF s = <<>> THEN 1 ELSE Head(s) * ProdSeq(Tail(s))

---------------------------------------------------------------------------
(* The dispatch ladders of BinInteraction.cpp.  A ladder returns the kernel *)
(* instantiation it ends in, with bAssertOk = every EBM_ASSERT on the way   *)
(* held.                                                                    *)

\* a rung that also takes a term of more dimensions than it is compiled for
DimensionsRungMatches_AtMost(cCompilerDimensionsPossible, cRuntimeDimensions) ==
    cCompilerDimensionsPossible <= cRuntimeDimensions

\* the test of one rung of the dimension ladder
DimensionsRungMatches(cCompilerDimensionsPossible, cRuntimeDimensions) ==
    cCompilerDimensionsPossible = cRuntimeDimensions

\* the test of one rung of the target (class) ladder
TargetRungMatches(cPossibleClasses, cRuntimeClassesArg) ==
    cPossibleClasses = cRuntimeClassesArg

\* BinSumsInteractionDimensions<cCompilerClasses, k_cCompilerOptimizedCountDimensionsMax + 1>
BinSumsInteractionDimensionsLast(cCompilerClassesArg, cRuntimeDimensions) ==
    [bAssertOk |-> 1 <= cRuntimeDimensions /\ cRuntimeDimensions <= k_cDimensionsMax,
     cCompilerClasses |-> cCompilerClassesArg,
     cCompilerDimensions |-> k_dynamicDimensions]

\* BinSumsInteractionDimensions<cCompilerClasses, cCompilerDimensionsPossible>
RECURSIVE BinSumsInteractionDimensions(_, _, _)
BinSumsInteractionDimensions(cCompilerClassesArg, cCompilerDimensionsPossible, cRuntimeDimensions) ==
    IF cCompilerDimensionsPossible = k_cCompilerOptimizedCountDimensionsMax + 1
    THEN BinSumsInteractionDimensionsLast(cCompilerClassesArg, cRuntimeDimensions)
    ELSE LET bOk == 1 <= cRuntimeDimensions /\ cRuntimeDimensions <= k_cDimensionsMax
             r == IF DimensionsRungMatches(cCompilerDimensionsPossible, cRuntimeDimensions)
                  THEN [bAssertOk |-> TRUE,
                        cCompilerClasses |-> cCompilerClassesArg,
                        cCompilerDimensions |-> cCompilerDimensionsPossible]
                  ELSE BinSumsInteractionDimensions(
                           cCompilerClassesArg, cCompilerDimensionsPossible + 1,
                           cRuntimeDimensions)
         IN  [r EXCEPT !.bAssertOk = bOk /\ @]

\* BinSumsInteractionTarget<k_cCompilerClassesMax + 1>
BinSumsInteractionTargetLast(cRuntimeClassesArg, cRuntimeDimensions) ==
    LET bOk == IsClassification(cRuntimeClassesArg)
                  /\ k_cCompilerClassesMax < cRuntimeClassesArg
        r == BinSumsInteractionDimensions(k_dynamicClassification, 2, cRuntimeDimensions)
    IN  [r EXCEPT !.bAssertOk = bOk /\ @]

\* BinSumsInteractionTarget<cPossibleClasses>
RECURSIVE BinSumsInteractionTarget(_, _, _)
BinSumsInteractionTarget(cPossibleClasses, cRuntimeClassesArg, cRuntimeDimensions) ==
    IF cPossibleClasses = k_cCompilerClassesMax + 1
    THEN BinSumsInteractionTargetLast(cRuntimeClassesArg, cRuntimeDimensions)
    ELSE LET bOk == IsClassification(cRuntimeClassesArg)
                       /\ cRuntimeClassesArg <= k_cCompilerClassesMax
             r == IF TargetRungMatches(cPossibleClasses, cRuntimeClassesArg)
                  THEN BinSumsInteractionDimensions(cPossibleClasses, 2, cRuntimeDimensions)
                  ELSE BinSumsInteractionTarget(
                           cPossibleClasses + 1, cRuntimeClassesArg, cRuntimeDimensions)
         IN  [r EXCEPT !.bAssertOk = bOk /\ @]

\* BinSumsInteraction: the instantiation the public entry point ends in
BinSumsInteractionRoute(cRuntimeClassesArg, cRuntimeDimensions) ==
    IF IsClassification(cRuntimeClassesArg)
    THEN BinSumsInteractionTarget(2, cRuntimeClassesArg, cRuntimeDimensions)
    ELSE LET r == BinSumsInteractionDimensions(k_regression, 2, cRuntimeDimensions)
         IN  [r EXCEPT !.bAssertOk = IsRegression(cRuntimeClassesArg) /\ @]

---------------------------------------------------------------------------
(* The kernel BinSumsInteractionInternal<cCompilerClasses, cCompilerDimensions>::Func *)

\* a zeroed bin record: count, weight and one gradient pair per score
\* (a pair holds m_sumHessians for classification only)
ZeroBin(bClassification, cScores) ==
    [m_cSamples |-> 0,
     m_weight |-> 0,
     m_aGradientPairs |->
        [iScore \in 1..cScores |->
            IF bClassification
            THEN [m_sumGradients |-> 0, m_sumHessians |-> 0]
            ELSE [m_sumGradients |-> 0]]]

\* a zeroed tensor of cTensorBins records, indexed from 0
ZeroTensor(cTensorBins, bClassification, cScores) ==
    [iBin \in 0..(cTensorBins - 1) |-> ZeroBin(bClassification, cScores)]

\* the number of buffer entries one score takes
GradientStride(bClassification) == IF bClassification THEN 2 ELSE 1

\* pGradientsAndHessiansEnd - GetGradientsAndHessiansPointer()
GradientsAndHessiansEnd(bClassification, cScores, cSamples) ==
    GradientStride(bClassification) * cScores * cSamples

\* the index loop with the stride advanced by addition instead of multiplication
RECURSIVE TensorIndexLoop_AddStride(_, _, _, _, _, _, _)
TensorIndexLoop_AddStride(term, aInputData, iSampleArg, cDimensions, iDimension, cTensorBins, iTensorBin) ==
    LET cBins == term[iDimension + 1]
        iBin == aInputData[iDimension + 1][iSampleArg + 1]
        iTensorBinNext == iTensorBin + cTensorBins * iBin
        cTensorBinsNext == cTensorBins + cBins
    IN  IF iDimension + 1 < cDimensions
        THEN TensorIndexLoop_AddStride(term, aInputData, iSampleArg, cDimensions,
                                       iDimension + 1, cTensorBinsNext, iTensorBinNext)
        ELSE iTensorBinNext

\* the do-while loop over the dimensions: the flat tensor index of sample iSampleArg
RECURSIVE TensorIndexLoop(_, _, _, _, _, _, _)
TensorIndexLoop(term, aInputData, iSampleArg, cDimensions, iDimension, cTensorBins, iTensorBin) ==
    LET cBins == term[iDimension + 1]
        iBin == aInputData[iDimension + 1][iSampleArg + 1]
        iTensorBinNext == iTensorBin + cTensorBins * iBin
        cTensorBinsNext == cTensorBins * cBins
    IN  IF iDimension + 1 < cDimensions
        THEN TensorIndexLoop(term, aInputData, iSampleArg, cDimensions,
                             iDimension + 1, cTensorBinsNext, iTensorBinNext)
        ELSE iTensorBinNext

TensorIndex(term, aInputData, iSampleArg, cDimensions) ==
    TensorIndexLoop(term, aInputData, iSampleArg, cDimensions, 0, 1, 0)

\* the weight left at 0 when there is no weight array
SampleWeight_ZeroDefault(aWeights, pWeightArg) ==
    IF aWeights # nullptr THEN aWeights[pWeightArg + 1] ELSE 0

\* the weight of the sample the weight cursor is at: 1 without a weight array
SampleWeight(aWeights, pWeightArg) ==
    IF aWeights # nullptr THEN aWeights[pWeightArg + 1] ELSE 1

\* the weight cursor left where it is
WeightAdvance_Stuck(aWeights, pWeightArg) == pWeightArg

\* the new value of the weight cursor after one sample
WeightAdvance(aWeights, pWeightArg) ==
    IF aWeights # nullptr THEN pWeightArg + 1 ELSE pWeightArg

\* the gradient added without its weight
GradientPairAdd_Unweighted(pair, bClassification, aGradientsAndHessians, p, weight) ==
    IF bClassification
    THEN [m_sumGradients |-> pair.m_sumGradients + aGradientsAndHessians[p + 1],
          m_sumHessians |-> pair.m_sumHessians + aGradientsAndHessians[p + 2] * weight]
    ELSE [m_sumGradients |-> pair.m_sumGradients + aGradientsAndHessians[p + 1]]

\* the Hessian read from the gradient's slot
GradientPairAdd_WrongSlot(pair, bClassification, aGradientsAndHessians, p, weight) ==
    IF bClassification
    THEN [m_sumGradients |-> pair.m_sumGradients + aGradientsAndHessians[p + 1] * weight,
          m_sumHessians |-> pair.m_sumHessians + aGradientsAndHessians[p + 1] * weight]
    ELSE [m_sumGradients |-> pair.m_sumGradients + aGradientsAndHessians[p + 1] * weight]

\* one gradient pair after adding the sample's entry for one score
GradientPairAdd(pair, bClassification, aGradientsAndHessians, p, weight) ==
    IF bClassification
    THEN [m_sumGradients |-> pair.m_sumGradients + aGradientsAndHessians[p + 1] * weight,
          m_sumHessians |-> pair.m_sumHessians + aGradientsAndHessians[p + 2] * weight]
    ELSE [m_sumGradients |-> pair.m_sumGradients + aGradientsAndHessians[p + 1] * weight]

\* the per-score sums of a bin after adding one sample
BinAddGradients(bin, bClassification, cScores, aGradientsAndHessians, pGH, weight) ==
    [iScore \in 1..cScores |->
        GradientPairAdd(bin.m_aGradientPairs[iScore], bClassification,
                        aGradientsAndHessians,
                        pGH + GradientStride(bClassification) * (iScore - 1),
                        weight)]

\* the count advanced by the weight instead of by 1
BinAddSample_CountWeight(bin, bClassification, cScores, aGradientsAndHessians, pGH, weight) ==
    [m_cSamples |-> bin.m_cSamples + weight,
     m_weight |-> bin.m_weight + weight,
     m_aGradientPairs |->
        BinAddGradients(bin, bClassification, cScores, aGradientsAndHessians, pGH, weight)]

\* the weight stored instead of added
BinAddSample_OverwriteWeight(bin, bClassification, cScores, aGradientsAndHessians, pGH, weight) ==
    [m_cSamples |-> bin.m_cSamples + 1,
     m_weight |-> weight,
     m_aGradientPairs |->
        BinAddGradients(bin, bClassification, cScores, aGradientsAndHessians, pGH, weight)]

\* the count set to 1 instead of advanced by 1
BinAddSample_CountOne(bin, bClassification, cScores, aGradientsAndHessians, pGH, weight) ==
    [m_cSamples |-> 1,
     m_weight |-> bin.m_weight + weight,
     m_aGradientPairs |->
        BinAddGradients(bin, bClassification, cScores, aGradientsAndHessians, pGH, weight)]

\* the bin record after adding one sample whose buffer entries start at pGH
BinAddSample(bin, bClassification, cScores, aGradientsAndHessians, pGH, weight) ==
    [m_cSamples |-> bin.m_cSamples + 1,
     m_weight |-> bin.m_weight + weight,
     m_aGradientPairs |->
        BinAddGradients(bin, bClassification, cScores, aGradientsAndHessians, pGH, weight)]

\* the iteration with the tensor zeroed inside the loop: every other bin is reset
KernelIteration_ZeroInLoop(k, cCompilerClassesArg, cCompilerDimensionsArg, cRuntimeClassesArg, term, ds) ==
    LET bClassification == IsClassification(cCompilerClassesArg)
        cClasses == GET_COUNT_CLASSES(cCompilerClassesArg, cRuntimeClassesArg)
        cScores == GetCountScores(cClasses)
        cDimensions == GET_DIMENSIONS(cCompilerDimensionsArg, Len(term))
        iTensorBin == TensorIndex(term, ds.aInputData, k.iSample, cDimensions)
        weight == SampleWeight(ds.aWeights, k.pWeight)
    IN  [iSample |-> k.iSample + 1,
         pGradientAndHessian |->
            k.pGradientAndHessian + GradientStride(bClassification) * cScores,
         pWeight |-> WeightAdvance(ds.aWeights, k.pWeight),
         aBins |-> [iBin \in DOMAIN k.aBins |->
                       IF iBin = iTensorBin
                       THEN BinAddSample(k.aBins[iBin], bClassification, cScores,
                                         ds.aGradientsAndHessians, k.pGradientAndHessian,
                                         weight)
                       ELSE ZeroBin(bClassification, cScores)]]

\* one iteration of the sample loop on the kernel state
\* k = [iSample, pGradientAndHessian, pWeight, aBins]
KernelIteration(k, cCompilerClassesArg, cCompilerDimensionsArg, cRuntimeClassesArg, term, ds) ==
    LET bClassification == IsClassification(cCompilerClassesArg)
        cClasses == GET_COUNT_CLASSES(cCompilerClassesArg, cRuntimeClassesArg)
        cScores == GetCountScores(cClasses)
        cDimensions == GET_DIMENSIONS(cCompilerDimensionsArg, Len(term))
        iTensorBin == TensorIndex(term, ds.aInputData, k.iSample, cDimensions)
        weight == SampleWeight(ds.aWeights, k.pWeight)
    IN  [iSample |-> k.iSample + 1,
         pGradientAndHessian |->
            k.pGradientAndHessian + GradientStride(bClassification) * cScores,
         pWeight |-> WeightAdvance(ds.aWeights, k.pWeight),
         aBins |-> [k.aBins EXCEPT ![iTensorBin] =
                       BinAddSample(@, bClassification, cScores,
                                    ds.aGradientsAndHessians, k.pGradientAndHessian,
                                    weight)]]

\* the loop condition pGradientsAndHessiansEnd != pGradientAndHessian
KernelLoopCondition(k, cCompilerClassesArg, cRuntimeClassesArg, ds) ==
    LET bClassification == IsClassification(cCompilerClassesArg)
        cScores == GetCountScores(GET_COUNT_CLASSES(cCompilerClassesArg, cRuntimeClassesArg))
    IN  k.pGradientAndHessian #
            GradientsAndHessiansEnd(bClassification, cScores, ds.cSamples)

\* the kernel state on entry: the cursors at the start, the caller's tensor
KernelEntry(aBinsArg) ==
    [iSample |-> 0, pGradientAndHessian |-> 0, pWeight |-> 0, aBins |-> aBinsArg]

\* the whole loop, run from kernel state k to its end
RECURSIVE KernelRun(_, _, _, _, _, _)
KernelRun(k, cCompilerClassesArg, cCompilerDimensionsArg, cRuntimeClassesArg, term, ds) ==
    IF KernelLoopCondition(k, cCompilerClassesArg, cRuntimeClassesArg, ds)
    THEN KernelRun(KernelIteration(k, cCompilerClassesArg, cCompilerDimensionsArg,
                                   cRuntimeClassesArg, term, ds),
                   cCompilerClassesArg, cCompilerDimensionsArg, cRuntimeClassesArg, term, ds)
    ELSE k

---------------------------------------------------------------------------
(* The inputs of one BinSumsInteraction call *)

\* the terms of cDimensions dimensions: 3 bins in one of the first two
\* dimensions, 2 bins in the others
TermsOf(cDimensions) ==
    { [iDimension \in 1..cDimensions |-> IF iDimension = iWide THEN 3 ELSE 2] :
        iWide \in 1..2 }

\* every tuple of bins of a term, each bin in range
RECURSIVE AllBinTuples(_)
AllBinTuples(term) ==
    IF term = <<>>
    THEN {<<>>}
    ELSE { <<iBin>> \o rest : iBin \in 0..(Head(term) - 1), rest \in AllBinTuples(Tail(term)) }

\* the bin tuples the samples of the datasets are drawn from: the last bin in
\* no dimension, in the first dimension only, and in every dimension
SampleBinTuples(term) ==
    { [iDimension \in 1..Len(term) |->
          IF iDimension \in atLast THEN term[iDimension] - 1 ELSE 0] :
        atLast \in {{}, {1}, 1..Len(term)} }

\* the feature columns holding the given bin tuples, one tuple per sample
ColumnsOfTuples(term, aTuples) ==
    [iDimension \in 1..Len(term) |->
        [s \in 1..Len(aTuples) |-> aTuples[s][iDimension]]]

\* the feature columns of a term over cSamples samples
InputColumns(term, cSamples) ==
    { ColumnsOfTuples(term, aTuples) : aTuples \in [1..cSamples -> SampleBinTuples(term)] }

\* the weight arrays: none, all 1, or 2 and 1 in turn
WeightArrays(cSamples) ==
    { nullptr,
      [s \in 1..cSamples |-> 1],
      [s \in 1..cSamples |-> 1 + (s % 2)] }

\* the sample patterns of the gradient buffer: patterns 1 and 2 in turn
SamplePatterns(cSamples) ==
    { [s \in 1..cSamples |-> 1 + (s % 2)], [s \in 1..cSamples |-> 2 - (s % 2)] }

\* the entry of the gradient buffer for sample pattern iPattern and score iScore
\* (0-based), in quarters: a gradient in [-1, 1], a Hessian in [0, 0.25]
PatternGradient(iPattern, iScore) ==
    IF iPattern = 1 THEN iScore - 2 ELSE 4 - iScore

PatternHessian(iPattern, iScore) ==
    IF iPattern = 1 THEN (iScore + 1) % 2 ELSE iScore % 2

\* the buffer [g, h, g, h, ...] (classification) or [g, g, ...] (regression) of
\* samples with the given patterns
GradientBuffer(aPatterns, bClassification, cScores) ==
    LET cPerScore == GradientStride(bClassification)
        cPerSample == cPerScore * cScores
    IN  [i \in 1..(cPerSample * Len(aPatterns)) |->
            LET iPattern == aPatterns[((i - 1) \div cPerSample) + 1]
                iScore == ((i - 1) % cPerSample) \div cPerScore
            IN  IF ((i - 1) % cPerSample) % cPerScore = 0
                THEN PatternGradient(iPattern, iScore)
                ELSE PatternHessian(iPattern, iScore)]

\* the datasets of cSamples samples for a term and a class count
DataSetsOf(term, cSamples, cClasses) ==
    { [cSamples |-> cSamples,
       aInputData |-> aInputData,
       aWeights |-> aWeights,
       aGradientsAndHessians |->
           GradientBuffer(aPatterns, IsClassification(cClasses), GetCountScores(cClasses))] :
        aInputData \in InputColumns(term, cSamples),
        aWeights \in WeightArrays(cSamples),
        aPatterns \in SamplePatterns(cSamples) }

\* the class counts: regression, and 2 .. one more than the specialized ones
RuntimeClasses == {k_regression} \cup 2..(k_cCompilerClassesMax + 1)

\* the tree-sweep variables while no size is asked for
TreeSweepIdle ==
    /\ sweepArgs = <<>>
    /\ bOverflowTreeSweep = <<>>
    /\ cBytesPerTreeSweep = <<>>

\* the other components' variables while the kernel or an initializer runs
\* main's variables while main does not run
MainIdle ==
    /\ g_allTestsHidden = <<>>
    /\ iTestCase = 0
    /\ bPassed = TRUE

\* no TestBoost object
TestBoostIdle ==
    /\ m_cClasses = k_regression
    /\ m_iZeroClassificationLogit = -1
    /\ m_termBins = <<>>
    /\ aBoostCalls = <<>>
    /\ aApiCalls = <<>>
    /\ aBestTermScores = <<>>
    /\ termScoreCall = <<>>
    /\ termScore = <<>>

\* no comparison made
ApproxIdle ==
    /\ approxArgs = <<>>
    /\ aApproxCalls = <<>>
    /\ g_countEqualityFailures = 0

\* no partitioned aggregation
WorkersIdle ==
    /\ aWorkers = <<>>
    /\ aReduced = <<>>

\* no interaction strength call
StrengthIdle ==
    /\ strengthTensor = <<>>
    /\ avgInteractionStrength = <<>>

LaterIdle == ApproxIdle /\ WorkersIdle /\ StrengthIdle

OthersIdle ==
    TreeSweepIdle /\ MainIdle /\ exitCode = <<>> /\ TestBoostIdle /\ LaterIdle

\* the initializers' variables while no initializer runs
InitializerIdle ==
    /\ direction = 1
    /\ aBag = nullptr
    /\ aInitScores = nullptr
    /\ aTargets = <<>>
    /\ aSubsets = <<>>
    /\ aWrites = <<>>
    /\ aSubsetWeights = <<>>
    /\ pSampleReplication = 0
    /\ pTargetData = 0
    /\ pInitScore = 0
    /\ pSubset = 0

\* the kernel's variables while no kernel runs
KernelIdle ==
    /\ cRuntimeClasses = k_regression
    /\ pTerm = <<>>
    /\ pDataSet = [cSamples |-> 0, aInputData |-> <<>>, aWeights |-> nullptr,
                   aGradientsAndHessians |-> <<>>]
    /\ aInvoked = <<>>
    /\ cCompilerClasses = k_dynamicClassification
    /\ cCompilerDimensions = k_dynamicDimensions
    /\ iSample = 0
    /\ pWeight = 0
    /\ aBins = <<>>
    /\ NDEBUG = TRUE

---------------------------------------------------------------------------
(* Specification of BinSumsInteraction *)

Init ==
    /\ pc = "BinSumsInteraction"
    /\ cRuntimeClasses \in RuntimeClasses
    /\ \E cDimensions \in 1..k_cDimensionsMax : pTerm \in TermsOf(cDimensions)
    /\ \E cSamples \in 1..MaxSamples :
          pDataSet \in DataSetsOf(pTerm, cSamples, cRuntimeClasses)
    /\ aInvoked = <<>>
    /\ cCompilerClasses = k_dynamicClassification
    /\ cCompilerDimensions = k_dynamicDimensions
    /\ iSample = 0
    /\ pGradientAndHessian = 0
    /\ pWeight = 0
    /\ aBins = ZeroTensor(ProdSeq(pTerm), IsClassification(cRuntimeClasses),
                          GetCountScores(cRuntimeClasses))
    /\ NDEBUG \in BOOLEAN
    /\ InitializerIdle
    /\ OthersIdle

\* the kernel state held in the variables
KernelState ==
    [iSample |-> iSample, pGradientAndHessian |-> pGradientAndHessian,
     pWeight |-> pWeight, aBins |-> aBins]

\* BinSumsInteraction up to the entry of the kernel it dispatches to.  EBM_ASSERT
\* is compiled in or out (NDEBUG): where an assertion on the way fails, a build
\* with assertions stops the call there, one without goes on
BinSumsInteraction ==
    /\ pc = "BinSumsInteraction"
    /\ LET route == BinSumsInteractionRoute(cRuntimeClasses, Len(pTerm))
       IN  IF ~NDEBUG /\ ~route.bAssertOk
           THEN /\ pc' = "aborted"
                /\ UNCHANGED <<aInvoked, cCompilerClasses, cCompilerDimensions>>
           ELSE /\ pc' = "kernel"
                /\ aInvoked' = Append(aInvoked,
                                      <<route.cCompilerClasses, route.cCompilerDimensions>>)
                /\ cCompilerClasses' = route.cCompilerClasses
                /\ cCompilerDimensions' = route.cCompilerDimensions
    /\ iSample' = 0
    /\ pGradientAndHessian' = 0
    /\ pWeight' = 0
    /\ UNCHANGED <<cRuntimeClasses, pTerm, pDataSet, aBins, NDEBUG>>
    /\ UNCHANGED <<initializerVars, otherVars>>

\* the assertions of one iteration without iBin < cBins
KernelAssertionsHold_TensorOnly(k, cCompilerDimensionsArg, term, ds) ==
    TensorIndex(term, ds.aInputData, k.iSample,
                GET_DIMENSIONS(cCompilerDimensionsArg, Len(term))) \in DOMAIN k.aBins

\* the assertions of one iteration hold: every bin of the sample is below its
\* feature's bin count (iBin < cBins) and the bin addressed lies in the tensor
\* (ASSERT_BIN_OK)
KernelAssertionsHold(k, cCompilerDimensionsArg, term, ds) ==
    LET cDimensions == GET_DIMENSIONS(cCompilerDimensionsArg, Len(term))
    IN  /\ \A iDimension \in 1..cDimensions :
              ds.aInputData[iDimension][k.iSample + 1] < term[iDimension]
        /\ TensorIndex(term, ds.aInputData, k.iSample, cDimensions) \in DOMAIN k.aBins

\* the bin addressed by the iteration lies in the tensor's memory
KernelBinInTensor(k, cCompilerDimensionsArg, term, ds) ==
    TensorIndex(term, ds.aInputData, k.iSample,
                GET_DIMENSIONS(cCompilerDimensionsArg, Len(term))) \in DOMAIN k.aBins

\* one iteration of the kernel's loop over the samples.  Where an assertion of
\* the iteration fails, a build with assertions stops there; one without goes
\* on with the index it computed, which is an access outside the tensor when
\* the index is not below the tensor's size
KernelSample ==
    /\ pc = "kernel"
    /\ KernelLoopCondition(KernelState, cCompilerClasses, cRuntimeClasses, pDataSet)
    /\ IF ~NDEBUG /\ ~KernelAssertionsHold(KernelState, cCompilerDimensions, pTerm, pDataSet)
       THEN /\ pc' = "aborted"
            /\ UNCHANGED <<iSample, pGradientAndHessian, pWeight, aBins>>
       ELSE IF ~KernelBinInTensor(KernelState, cCompilerDimensions, pTerm, pDataSet)
       THEN /\ pc' = "undefined"
            /\ UNCHANGED <<iSample, pGradientAndHessian, pWeight, aBins>>
       ELSE LET k == KernelIteration(KernelState, cCompilerClasses, cCompilerDimensions,
                                     cRuntimeClasses, pTerm, pDataSet)
            IN  /\ iSample' = k.iSample
                /\ pGradientAndHessian' = k.pGradientAndHessian
                /\ pWeight' = k.pWeight
                /\ aBins' = k.aBins
                /\ pc' = pc
    /\ UNCHANGED <<cRuntimeClasses, pTerm, pDataSet, aInvoked,
                   cCompilerClasses, cCompilerDimensions, NDEBUG>>
    /\ UNCHANGED <<initializerVars, otherVars>>

\* the loop ends and the kernel returns
KernelExit ==
    /\ pc = "kernel"
    /\ ~KernelLoopCondition(KernelState, cCompilerClasses, cRuntimeClasses, pDataSet)
    /\ pc' = "done"
    /\ UNCHANGED <<cRuntimeClasses, pTerm, pDataSet, aInvoked, cCompilerClasses,
                   cCompilerDimensions, iSample, pGradientAndHessian, pWeight, aBins, NDEBUG>>
    /\ UNCHANGED <<initializerVars, otherVars>>

Next == BinSumsInteraction \/ KernelSample \/ KernelExit

Spec == Init /\ [][Next]_vars

---------------------------------------------------------------------------
(* What the claims about BinSumsInteraction speak of, stated from the       *)
(* dataset alone                                                            *)

\* i = b0 + cBins[0] * (b1 + cBins[1] * (b2 + ...))
RECURSIVE FlatIndex(_, _)
FlatIndex(term, aSampleBins) ==
    IF aSampleBins = <<>>
    THEN 0
    ELSE Head(aSampleBins) + Head(term) * FlatIndex(Tail(term), Tail(aSampleBins))

\* the per-dimension bins of sample s (1-based)
SampleBins(term, ds, s) == [iDimension \in 1..Len(term) |-> ds.aInputData[iDimension][s]]

\* the samples (1-based) whose flat index is iTensorBin
SamplesOfBin(term, ds, iTensorBin) ==
    { s \in 1..ds.cSamples : FlatIndex(term, SampleBins(term, ds, s)) = iTensorBin }

\* w[s], g[s, k] and h[s, k] of sample s (1-based) and score k (1-based)
WeightOf(ds, s) == IF ds.aWeights = nullptr THEN 1 ELSE ds.aWeights[s]

GradientOf(ds, cClasses, s, k) ==
    ds.aGradientsAndHessians[
        ((s - 1) * GetCountScores(cClasses) + (k - 1))
            * GradientStride(IsClassification(cClasses)) + 1]

HessianOf(ds, cClasses, s, k) ==
    ds.aGradientsAndHessians[
        ((s - 1) * GetCountScores(cClasses) + (k - 1))
            * GradientStride(IsClassification(cClasses)) + 2]

\* the sum of f[x] over the finite set S
RECURSIVE SumOver(_, _)
SumOver(S, f) ==
    IF S = {} THEN 0 ELSE LET x == CHOOSE y \in S : TRUE IN f[x] + SumOver(S \ {x}, f)

\* the sums over all bins of a tensor
TensorCount(tensor) ==
    SumOver(DOMAIN tensor, [i \in DOMAIN tensor |-> tensor[i].m_cSamples])
TensorWeight(tensor) ==
    SumOver(DOMAIN tensor, [i \in DOMAIN tensor |-> tensor[i].m_weight])

\* C1: once BinSumsInteraction has run over the zeroed tensor, every bin holds
\* the number of samples whose flat index is that bin, the sum of their weights
\* (1 each without a weight array), and per score the sum of g[s,k]*w[s] (and of
\* h[s,k]*w[s] for classification); a bin no sample hits is all zero.
C1_BinContents ==
    pc = "done" =>
        \A iTensorBin \in DOMAIN aBins :
            LET S == SamplesOfBin(pTerm, pDataSet, iTensorBin)
                bin == aBins[iTensorBin]
                W == [s \in S |-> WeightOf(pDataSet, s)]
            IN  /\ bin.m_cSamples = Cardinality(S)
                /\ bin.m_weight = SumOver(S, W)
                /\ \A k \in 1..GetCountScores(cRuntimeClasses) :
                      LET G == [s \in S |->
                                  GradientOf(pDataSet, cRuntimeClasses, s, k) * W[s]]
                          H == [s \in S |->
                                  IF IsClassification(cRuntimeClasses)
                                  THEN HessianOf(pDataSet, cRuntimeClasses, s, k) * W[s]
                                  ELSE 0]
                      IN  /\ bin.m_aGradientPairs[k].m_sumGradients = SumOver(S, G)
                          /\ IsClassification(cRuntimeClasses) =>
                                bin.m_aGradientPairs[k].m_sumHessians = SumOver(S, H)
                /\ S = {} =>
                      bin = ZeroBin(IsClassification(cRuntimeClasses),
                                    GetCountScores(cRuntimeClasses))

\* a finished multiclass run with weights in which one bin took two samples of
\* different weight and another bin took none
C1_Witness ==
    /\ pc = "done"
    /\ cRuntimeClasses = 3
    /\ pDataSet.aWeights = <<2, 1>>
    /\ \E i, j \in DOMAIN aBins :
          /\ aBins[i].m_cSamples = 2
          /\ aBins[i].m_aGradientPairs[1].m_sumGradients # 0
          /\ aBins[j].m_cSamples = 0

\* C2: the kernel's flat index of every sample is b0 + cBins[0]*(b1 + cBins[1]*
\* (b2 + ...)), dimension 0 fastest; it lies in 0 .. product of cBins - 1, and
\* two samples share an index exactly when all their bins are equal.
C2_FlatIndex ==
    pc \in {"kernel", "done"} =>
        LET cDimensions == GET_DIMENSIONS(cCompilerDimensions, Len(pTerm))
            I(s) == TensorIndex(pTerm, pDataSet.aInputData, s - 1, cDimensions)
            J(aTuple) == TensorIndex(pTerm, ColumnsOfTuples(pTerm, <<aTuple>>), 0, cDimensions)
        IN  /\ iSample = 0 =>
                \A aTuple \in AllBinTuples(pTerm) :
                    /\ J(aTuple) = FlatIndex(pTerm, aTuple)
                    /\ J(aTuple) \in 0..(ProdSeq(pTerm) - 1)
                    /\ \A aOther \in AllBinTuples(pTerm) :
                          (J(aTuple) = J(aOther)) <=> (aTuple = aOther)
            /\ \A s \in 1..pDataSet.cSamples :
                /\ I(s) = FlatIndex(pTerm, SampleBins(pTerm, pDataSet, s))
                /\ 0 <= I(s)
                /\ I(s) < ProdSeq(pTerm)
                /\ \A t \in 1..pDataSet.cSamples :
                      (I(s) = I(t)) <=>
                          (SampleBins(pTerm, pDataSet, s) = SampleBins(pTerm, pDataSet, t))

\* a three-dimensional term whose first sample has the last bin of dimension 0
\* only (flat index 1) and whose second has the last bin of every dimension
\* (flat index 1 + 2 * (2 + 3 * 1) = 11); the first has been counted
C2_Witness ==
    /\ pc = "kernel"
    /\ pTerm = <<2, 3, 2>>
    /\ pDataSet.cSamples = 2
    /\ SampleBins(pTerm, pDataSet, 1) = <<1, 0, 0>>
    /\ SampleBins(pTerm, pDataSet, 2) = <<1, 2, 1>>
    /\ iSample = 1
    /\ aBins[1].m_cSamples = 1

\* C3: one iteration of the sample loop changes the bin record at the sample's
\* flat index only (count + 1, weight + w, the per-score sums), and no step of
\* the call writes the gradient/Hessian buffer, the weights or the feature columns.
C3_Frame ==
    [][ /\ pDataSet' = pDataSet
        /\ pTerm' = pTerm
        /\ (pc = "kernel" /\ iSample' = iSample + 1) =>
              LET i == FlatIndex(pTerm, SampleBins(pTerm, pDataSet, iSample + 1))
                  w == WeightOf(pDataSet, iSample + 1)
              IN  /\ \A j \in DOMAIN aBins : j # i => aBins'[j] = aBins[j]
                  /\ DOMAIN aBins' = DOMAIN aBins
                  /\ aBins'[i].m_cSamples = aBins[i].m_cSamples + 1
                  /\ aBins'[i].m_weight = aBins[i].m_weight + w
                  /\ \A k \in 1..GetCountScores(cRuntimeClasses) :
                        aBins'[i].m_aGradientPairs[k].m_sumGradients =
                            aBins[i].m_aGradientPairs[k].m_sumGradients
                                + GradientOf(pDataSet, cRuntimeClasses, iSample + 1, k) * w
      ]_vars

\* the second sample has been added to another bin than the first
C3_Witness ==
    /\ pc = "kernel"
    /\ iSample = 2
    /\ \E i, j \in DOMAIN aBins :
          i # j /\ aBins[i].m_cSamples = 1 /\ aBins[j].m_cSamples = 1

\* C4: after BinSums on the zeroed tensor the counts of all bins add up to the
\* number of counted samples, which is the number of sample slots of the
\* gradient buffer.
C4_CountTotal ==
    pc = "done" =>
        /\ TensorCount(aBins) = pDataSet.cSamples
        /\ TensorCount(aBins) * GetCountScores(cRuntimeClasses)
              * GradientStride(IsClassification(cRuntimeClasses))
                 = Len(pDataSet.aGradientsAndHessians)

\* a finished run over two weighted samples in two bins
C4_Witness ==
    /\ pc = "done"
    /\ pDataSet.cSamples = 2
    /\ pDataSet.aWeights = <<2, 1>>
    /\ \E i, j \in DOMAIN aBins :
          i # j /\ aBins[i].m_cSamples = 1 /\ aBins[j].m_cSamples = 1

\* the weights of a dataset are all equal to c
UniformWeights(ds, c) ==
    ds.aWeights # nullptr /\ \A s \in 1..ds.cSamples : ds.aWeights[s] = c

\* C5 as stated: with uniform weights (or no weight array) the weights of all
\* bins add up to the counts of all bins.
C5_UniformWeightTotal ==
    (pc = "done" /\ (pDataSet.aWeights = nullptr
                        \/ \E c \in 1..2 : UniformWeights(pDataSet, c))) =>
        TensorWeight(aBins) = TensorCount(aBins)

\* C5 amended: without a weight array, or with every weight equal to 1, the
\* weights of all bins add up to the counts of all bins; with every weight equal
\* to c they add up to c times the counts.
C5_UnitWeightTotal ==
    pc = "done" =>
        /\ pDataSet.aWeights = nullptr => TensorWeight(aBins) = TensorCount(aBins)
        /\ \A c \in 1..2 :
              UniformWeights(pDataSet, c) => TensorWeight(aBins) = c * TensorCount(aBins)

\* a finished run over two samples without a weight array
C5_Witness ==
    /\ pc = "done"
    /\ pDataSet.aWeights = nullptr
    /\ pDataSet.cSamples = 2
    /\ TensorWeight(aBins) = 2

\* C6 as stated: for classification every bin and score has
\* 0 <= sumHessians <= 0.25 * count, whatever the weights (a Hessian sum is a
\* count of quarters, so 0.25 * count is the count itself).
C6_HessianBoundByCount ==
    (pc = "done" /\ IsClassification(cRuntimeClasses)) =>
        \A iTensorBin \in DOMAIN aBins :
            \A k \in 1..GetCountScores(cRuntimeClasses) :
                /\ 0 <= aBins[iTensorBin].m_aGradientPairs[k].m_sumHessians
                /\ aBins[iTensorBin].m_aGradientPairs[k].m_sumHessians
                      <= aBins[iTensorBin].m_cSamples

\* C6 amended: for classification every bin and score has
\* 0 <= sumHessians <= 0.25 * weight of the bin, which is 0.25 * count when
\* there is no weight array or every weight is 1.
C6_HessianBoundByWeight ==
    (pc = "done" /\ IsClassification(cRuntimeClasses)) =>
        \A iTensorBin \in DOMAIN aBins :
            \A k \in 1..GetCountScores(cRuntimeClasses) :
                /\ 0 <= aBins[iTensorBin].m_aGradientPairs[k].m_sumHessians
                /\ aBins[iTensorBin].m_aGradientPairs[k].m_sumHessians
                      <= aBins[iTensorBin].m_weight
                /\ (pDataSet.aWeights = nullptr \/ UniformWeights(pDataSet, 1)) =>
                      aBins[iTensorBin].m_aGradientPairs[k].m_sumHessians
                          <= aBins[iTensorBin].m_cSamples

\* a finished binary classification run in which a bin of one sample of
\* weight 2 holds a Hessian sum of 0.5
C6_Witness ==
    /\ pc = "done"
    /\ cRuntimeClasses = 2
    /\ pDataSet.aWeights = <<2, 1>>
    /\ \E i \in DOMAIN aBins :
          /\ aBins[i].m_cSamples = 1
          /\ aBins[i].m_weight = 2
          /\ aBins[i].m_aGradientPairs[1].m_sumHessians = 2

\* the permutations of 1..n
PermutationsOf(n) ==
    { f \in [1..n -> 1..n] : \A i, j \in 1..n : f[i] = f[j] => i = j }

\* the dataset with its samples reordered: sample s of the result is sample
\* perm[s] of ds, in the feature columns, the weights and the gradient buffer
PermuteDataSet(ds, perm, cClasses) ==
    LET cPerSample == GetCountScores(cClasses) * GradientStride(IsClassification(cClasses))
    IN  [cSamples |-> ds.cSamples,
         aInputData |-> [iDimension \in DOMAIN ds.aInputData |->
                            [s \in 1..ds.cSamples |-> ds.aInputData[iDimension][perm[s]]]],
         aWeights |-> IF ds.aWeights = nullptr
                      THEN nullptr
                      ELSE [s \in 1..ds.cSamples |-> ds.aWeights[perm[s]]],
         aGradientsAndHessians |->
            [i \in 1..Len(ds.aGradientsAndHessians) |->
                ds.aGradientsAndHessians[
                    (perm[((i - 1) \div cPerSample) + 1] - 1) * cPerSample
                        + ((i - 1) % cPerSample) + 1]]]

\* C7: the aggregation is permutation-invariant: the same kernel run over the
\* dataset with its samples reordered (columns, weights and gradient buffer
\* alike) yields the same tensor, bin for bin.
C7_PermutationInvariant ==
    pc = "done" =>
        \A perm \in PermutationsOf(pDataSet.cSamples) :
            KernelRun(KernelEntry(ZeroTensor(ProdSeq(pTerm),
                                             IsClassification(cRuntimeClasses),
                                             GetCountScores(cRuntimeClasses))),
                      cCompilerClasses, cCompilerDimensions, cRuntimeClasses, pTerm,
                      PermuteDataSet(pDataSet, perm, cRuntimeClasses)).aBins = aBins

\* a finished run over two samples of different weight and gradient that share
\* a bin, so that their order could matter
C7_Witness ==
    /\ pc = "done"
    /\ pDataSet.cSamples = 2
    /\ pDataSet.aWeights = <<2, 1>>
    /\ pDataSet.aGradientsAndHessians[1] # pDataSet.aGradientsAndHessians[
            1 + GetCountScores(cRuntimeClasses)
                  * GradientStride(IsClassification(cRuntimeClasses))]
    /\ \E i \in DOMAIN aBins : aBins[i].m_cSamples = 2

\* the class parameter of the generic kernel for a class count
GenericClasses(cClasses) ==
    IF IsClassification(cClasses) THEN k_dynamicClassification ELSE k_regression

\* C8: the kernel BinSumsInteraction dispatches to works with the runtime class
\* count and the runtime dimension count (a compile-time parameter is selected
\* only when it equals the runtime value), and leaves the same tensor as the
\* generic kernel (dynamic classes, dynamic dimensions) on the same inputs.
C8_SpecializationEquivalence ==
    /\ pc \in {"kernel", "done"} =>
          /\ GET_COUNT_CLASSES(cCompilerClasses, cRuntimeClasses) = cRuntimeClasses
          /\ IsClassification(cCompilerClasses) = IsClassification(cRuntimeClasses)
          /\ GET_DIMENSIONS(cCompilerDimensions, Len(pTerm)) = Len(pTerm)
    /\ pc = "done" =>
          KernelRun(KernelEntry(ZeroTensor(ProdSeq(pTerm),
                                           IsClassification(cRuntimeClasses),
                                           GetCountScores(cRuntimeClasses))),
                    GenericClasses(cRuntimeClasses), k_dynamicDimensions,
                    cRuntimeClasses, pTerm, pDataSet).aBins = aBins

\* a finished run of the kernel specialized for 2 classes and 2 dimensions
C8_Witness ==
    /\ pc = "done"
    /\ cCompilerClasses = 2
    /\ cCompilerDimensions = 2
    /\ pDataSet.cSamples = 2

\* the kernel instantiation the dispatch is said to select
ExpectedInstantiation(cClasses, cDimensions) ==
    << IF IsClassification(cClasses)
       THEN (IF 2 <= cClasses /\ cClasses <= k_cCompilerClassesMax
             THEN cClasses ELSE k_dynamicClassification)
       ELSE k_regression,
       IF 2 <= cDimensions /\ cDimensions <= k_cCompilerOptimizedCountDimensionsMax
       THEN cDimensions ELSE k_dynamicDimensions >>

\* C9: for every class count and dimension count BinSumsInteraction invokes
\* exactly one kernel instantiation: class parameter K for classification with
\* 2 <= K <= K_MAX, k_dynamicClassification for classification when no rung
\* matches, regression for regression; dimension parameter D for
\* 2 <= D <= D_MAX and k_dynamicDimensions otherwise.
C9_ExactlyOneInstantiation ==
    pc # "BinSumsInteraction" =>
        aInvoked = << ExpectedInstantiation(cRuntimeClasses, Len(pTerm)) >>

---------------------------------------------------------------------------
(* InitializeRmseGradientsAndHessiansBoosting.  Targets, init scores and    *)
(* gradients are integers here; the subtraction is exact.                   *)

\* EbmStats::ComputeGradientRegressionRmseInit
ComputeGradientRegressionRmseInit(initScore, target) == initScore - target

\* SafeConvertFloat<FloatFast>(double): exact on the values of the model
SafeConvertFloat(val) == val

\* the scan that accepts an entry of either sign
RECURSIVE BagScanBoosting_AnySign(_, _, _, _, _)
BagScanBoosting_AnySign(aBagArg, isLoopValidation, p, t, cInitAdvances) ==
    IF p >= Len(aBagArg)
    THEN [bPastEnd |-> TRUE, replication |-> 0, pSampleReplication |-> p,
          pTargetData |-> t, cInitAdvances |-> cInitAdvances]
    ELSE LET replication == aBagArg[p + 1]
         IN  IF replication = 0
             THEN BagScanBoosting_AnySign(aBagArg, isLoopValidation, p + 1, t + 1, cInitAdvances)
             ELSE [bPastEnd |-> FALSE, replication |-> replication,
                   pSampleReplication |-> p + 1, pTargetData |-> t + 1,
                   cInitAdvances |-> cInitAdvances + 1]

\* the two nested do-while loops over the bag: the inner one passes the zero
\* entries, the outer one the nonzero entries of the other pass.  Starts at bag
\* offset p and target offset t; bPastEnd: an entry beyond the bag was read
RECURSIVE BagScanBoosting(_, _, _, _, _)
BagScanBoosting(aBagArg, isLoopValidation, p, t, cInitAdvances) ==
    IF p >= Len(aBagArg)
    THEN [bPastEnd |-> TRUE, replication |-> 0, pSampleReplication |-> p,
          pTargetData |-> t, cInitAdvances |-> cInitAdvances]
    ELSE LET replication == aBagArg[p + 1]
         IN  IF replication = 0
             THEN BagScanBoosting(aBagArg, isLoopValidation, p + 1, t + 1, cInitAdvances)
             ELSE IF isLoopValidation # (replication < 0)
             THEN BagScanBoosting(aBagArg, isLoopValidation, p + 1, t + 1, cInitAdvances + 1)
             ELSE [bPastEnd |-> FALSE, replication |-> replication,
                   pSampleReplication |-> p + 1, pTargetData |-> t + 1,
                   cInitAdvances |-> cInitAdvances + 1]

\* the write loop that goes back to the outer loop after the last slot too
RECURSIVE WriteReplications_NeverReturns(_, _, _, _)
WriteReplications_NeverReturns(w, gradient, replication, directionArg) ==
    LET iSubset == w.pSubset + 1
        iSlot == w.pGradientAndHessian + 1
        bSubsetFull == iSlot = Len(w.aSubsets[iSubset])
        bLast == bSubsetFull /\ iSubset = Len(w.aSubsets)
        wNext == [aSubsets |-> [w.aSubsets EXCEPT ![iSubset][iSlot] = gradient],
                  aWrites |-> [w.aWrites EXCEPT ![iSubset][iSlot] = @ + 1],
                  pSubset |-> IF bSubsetFull THEN w.pSubset + 1 ELSE w.pSubset,
                  pGradientAndHessian |->
                      IF bSubsetFull /\ ~bLast THEN 0 ELSE w.pGradientAndHessian + 1,
                  bReturned |-> FALSE]
    IN  IF bLast
        THEN wNext
        ELSE IF replication - directionArg # 0
        THEN WriteReplications_NeverReturns(wNext, gradient, replication - directionArg,
                                            directionArg)
        ELSE wNext

\* the write loop that leaves after its first write whatever the replication
WriteReplications_Once(w, gradient, replication, directionArg) ==
    LET iSubset == w.pSubset + 1
        iSlot == w.pGradientAndHessian + 1
        bSubsetFull == iSlot = Len(w.aSubsets[iSubset])
        bReturn == bSubsetFull /\ iSubset = Len(w.aSubsets)
    IN  [aSubsets |-> [w.aSubsets EXCEPT ![iSubset][iSlot] = gradient],
         aWrites |-> [w.aWrites EXCEPT ![iSubset][iSlot] = @ + 1],
         pSubset |-> IF bSubsetFull THEN w.pSubset + 1 ELSE w.pSubset,
         pGradientAndHessian |->
             IF bSubsetFull /\ ~bReturn THEN 0 ELSE w.pGradientAndHessian + 1,
         bReturned |-> bReturn]

\* the do-while loop that writes one gradient replication times, moving to the
\* next subset when one is full and returning when the last one is
\* w = [aSubsets, aWrites, pSubset, pGradientAndHessian, bReturned]
RECURSIVE WriteReplications(_, _, _, _)
WriteReplications(w, gradient, replication, directionArg) ==
    LET iSubset == w.pSubset + 1
        iSlot == w.pGradientAndHessian + 1
        aSubsetsNext == [w.aSubsets EXCEPT ![iSubset][iSlot] = gradient]
        aWritesNext == [w.aWrites EXCEPT ![iSubset][iSlot] = @ + 1]
        bSubsetFull == iSlot = Len(w.aSubsets[iSubset])
        bReturn == bSubsetFull /\ iSubset = Len(w.aSubsets)
        wNext == [aSubsets |-> aSubsetsNext,
                  aWrites |-> aWritesNext,
                  pSubset |-> IF bSubsetFull THEN w.pSubset + 1 ELSE w.pSubset,
                  pGradientAndHessian |->
                      IF bSubsetFull /\ ~bReturn THEN 0 ELSE w.pGradientAndHessian + 1,
                  bReturned |-> bReturn]
    IN  IF bReturn
        THEN wNext
        ELSE IF replication - directionArg # 0
        THEN WriteReplications(wNext, gradient, replication - directionArg, directionArg)
        ELSE wNext

---------------------------------------------------------------------------
(* The inputs of one initializer call *)

\* an entry is taken by the pass of the given direction
AcceptedByPass(replication, directionArg) ==
    (directionArg > 0 /\ replication > 0) \/ (directionArg < 0 /\ replication < 0)

Abs(x) == IF x < 0 THEN -x ELSE x

\* the number of gradient slots of a pass: the accepted multiplicities, or one
\* per sample without a bag
CountSlots(aBagArg, cSharedSamples, directionArg) ==
    IF aBagArg = nullptr
    THEN cSharedSamples
    ELSE SumOver({ s \in 1..Len(aBagArg) : AcceptedByPass(aBagArg[s], directionArg) },
                 [s \in 1..Len(aBagArg) |-> Abs(aBagArg[s])])

\* the number of nonzero entries among the first cEntries of a bag
CountNonzero(aBagArg, cEntries) ==
    Cardinality({ s \in 1..cEntries : aBagArg[s] # 0 })

\* cSlots gradient slots chunked into subsets of cChunk slots, the last one shorter
ChunkedSubsets(cSlots, cChunk) ==
    [iSubset \in 1..((cSlots + cChunk - 1) \div cChunk) |->
        [iSlot \in 1..Min(cChunk, cSlots - (iSubset - 1) * cChunk) |-> 0]]

\* the subset layouts of cSlots slots: one subset, or chunks of 1..MaxSubsetSamples
SubsetLayouts(cSlots) ==
    { ChunkedSubsets(cSlots, cSlots) }
        \cup { ChunkedSubsets(cSlots, cChunk) : cChunk \in 1..MaxSubsetSamples }

\* the target arrays of a shared dataset of cSharedSamples samples
TargetArrays(cSharedSamples) ==
    { [s \in 1..cSharedSamples |-> 2 * s + 1] }

\* the init score arrays of cScored entries: none, all zero, or all different
InitScoreArrays(cScored) ==
    { nullptr, [i \in 1..cScored |-> 0], [i \in 1..cScored |-> 10 * i] }

\* a bag with entries of both passes and a zero entry, multiplicities 1 to 3
MixedBag == <<1, -2, 0, 3, -1>>

\* the bags over cSharedSamples samples, and none; MixedBag for its length
Bags(cSharedSamples) ==
    (IF cSharedSamples <= MaxBagLength
     THEN {nullptr} \cup [1..cSharedSamples -> (-MaxReplication)..MaxReplication]
     ELSE {})
        \cup (IF cSharedSamples = Len(MixedBag) THEN {MixedBag} ELSE {})

\* the accepted samples' indices in increasing order, each |bag[s]| times: the
\* sample every gradient slot belongs to
RECURSIVE SlotOwners(_, _, _, _)
SlotOwners(aBagArg, cSharedSamples, directionArg, s) ==
    IF s > cSharedSamples
    THEN <<>>
    ELSE (IF aBagArg = nullptr
          THEN <<s>>
          ELSE IF AcceptedByPass(aBagArg[s], directionArg)
          THEN [i \in 1..Abs(aBagArg[s]) |-> s]
          ELSE <<>>)
         \o SlotOwners(aBagArg, cSharedSamples, directionArg, s + 1)

\* the number of slots of the subsets before subset iSubset
RECURSIVE SlotsBefore(_, _)
SlotsBefore(aSubsetsArg, iSubset) ==
    IF iSubset <= 1 THEN 0
    ELSE Len(aSubsetsArg[iSubset - 1]) + SlotsBefore(aSubsetsArg, iSubset - 1)

\* the weight of the shared dataset's sample s
SharedWeight(s) == s + 1

\* the weights of the subsets: none, or per slot the weight of the sample the
\* slot belongs to
SubsetWeights(aSubsetsArg, aOwners) ==
    { [iSubset \in 1..Len(aSubsetsArg) |-> nullptr],
      [iSubset \in 1..Len(aSubsetsArg) |->
          [iSlot \in 1..Len(aSubsetsArg[iSubset]) |->
              SharedWeight(aOwners[SlotsBefore(aSubsetsArg, iSubset) + iSlot])]] }

---------------------------------------------------------------------------
(* Specification of InitializeRmseGradientsAndHessiansBoosting *)

InitBoosting ==
    /\ pc = "InitializeRmseGradientsAndHessiansBoosting"
    /\ pGradientAndHessian = 0
    /\ KernelIdle
    /\ OthersIdle
    /\ \E cSharedSamples \in 1..MaxBagLength \cup {Len(MixedBag)} :
          /\ aTargets \in TargetArrays(cSharedSamples)
          /\ aBag \in Bags(cSharedSamples)
          /\ direction \in {1, -1}
          /\ aBag = nullptr => direction = 1
          /\ 1 <= CountSlots(aBag, cSharedSamples, direction)
          /\ aInitScores \in InitScoreArrays(
                IF aBag = nullptr THEN cSharedSamples
                ELSE CountNonzero(aBag, cSharedSamples))
          /\ aSubsets \in SubsetLayouts(CountSlots(aBag, cSharedSamples, direction))
          /\ aSubsetWeights \in
                SubsetWeights(aSubsets, SlotOwners(aBag, cSharedSamples, direction, 1))
    /\ aWrites = aSubsets
    /\ pSampleReplication = 0
    /\ pTargetData = 0
    /\ pInitScore = 0
    /\ pSubset = 0

\* the function up to its loop: the cursors at the start of their arrays
InitializeRmseGradientsAndHessiansBoosting ==
    /\ pc = "InitializeRmseGradientsAndHessiansBoosting"
    /\ pc' = "RmseBoostingLoop"
    /\ pSampleReplication' = 0
    /\ pTargetData' = 0
    /\ pInitScore' = 0
    /\ pSubset' = 0
    /\ pGradientAndHessian' = 0
    /\ UNCHANGED <<direction, aBag, aInitScores, aTargets, aSubsets, aWrites, aSubsetWeights>>
    /\ UNCHANGED <<kernelVars, otherVars>>

\* one iteration of while(true): find the next sample of the pass, compute its
\* gradient, write it replication times; the function returns from inside the
\* iteration that fills the last slot
RmseBoostingIteration ==
    /\ pc = "RmseBoostingLoop"
    /\ LET scan == IF aBag # nullptr
                   THEN BagScanBoosting(aBag, direction < 0, pSampleReplication,
                                        pTargetData, 1)
                   ELSE [bPastEnd |-> FALSE, replication |-> 1,
                         pSampleReplication |-> pSampleReplication,
                         pTargetData |-> pTargetData + 1, cInitAdvances |-> 2]
           pTargetDataRead == scan.pTargetData - 1
           cInitAdvances == scan.cInitAdvances - 1
           pInitScoreNext == IF aInitScores # nullptr
                             THEN pInitScore + cInitAdvances ELSE pInitScore
           bPastEnd == \/ scan.bPastEnd
                       \/ pTargetDataRead >= Len(aTargets)
                       \/ aInitScores # nullptr /\ pInitScoreNext > Len(aInitScores)
       IN  IF bPastEnd
           THEN /\ pc' = "undefined"
                /\ UNCHANGED <<pGradientAndHessian, aSubsets, aWrites, pSampleReplication,
                               pTargetData, pInitScore, pSubset>>
           ELSE LET data == aTargets[pTargetDataRead + 1]
                    initScore == IF aInitScores # nullptr
                                 THEN SafeConvertFloat(aInitScores[pInitScoreNext])
                                 ELSE 0
                    gradient == ComputeGradientRegressionRmseInit(initScore, data)
                    w == WriteReplications(
                             [aSubsets |-> aSubsets, aWrites |-> aWrites,
                              pSubset |-> pSubset,
                              pGradientAndHessian |-> pGradientAndHessian,
                              bReturned |-> FALSE],
                             gradient, scan.replication, direction)
                IN  /\ pc' = IF w.bReturned THEN "returned" ELSE "RmseBoostingLoop"
                    /\ pSampleReplication' = scan.pSampleReplication
                    /\ pTargetData' = pTargetDataRead + 1
                    /\ pInitScore' = pInitScoreNext
                    /\ aSubsets' = w.aSubsets
                    /\ aWrites' = w.aWrites
                    /\ pSubset' = w.pSubset
                    /\ pGradientAndHessian' = w.pGradientAndHessian
    /\ UNCHANGED <<direction, aBag, aInitScores, aTargets, aSubsetWeights>>
    /\ UNCHANGED <<kernelVars, otherVars>>

NextBoosting == InitializeRmseGradientsAndHessiansBoosting \/ RmseBoostingIteration

SpecBoosting == InitBoosting /\ [][NextBoosting]_vars

---------------------------------------------------------------------------
(* What the claims about the boosting initializer speak of *)

\* the slots of all subsets, in subset order
RECURSIVE Flatten(_)
Flatten(aSeqs) == IF aSeqs = <<>> THEN <<>> ELSE Head(aSeqs) \o Flatten(Tail(aSeqs))

\* cCopies copies of val
Copies(val, cCopies) == [i \in 1..cCopies |-> val]

\* the init score of the sample at bag index s: 0 without an array; with a bag,
\* the array holds one entry per nonzero bag entry
InitScoreOf(aInitScoresArg, aBagArg, s) ==
    IF aInitScoresArg = nullptr
    THEN 0
    ELSE IF aBagArg = nullptr
    THEN aInitScoresArg[s]
    ELSE aInitScoresArg[CountNonzero(aBagArg, s - 1) + 1]

\* the gradients of the samples from s on that the pass accepts, in increasing
\* sample order, each |bag[s]| times
RECURSIVE ExpectedGradients(_, _, _, _, _)
ExpectedGradients(aTargetsArg, aInitScoresArg, aBagArg, directionArg, s) ==
    IF s > Len(aTargetsArg)
    THEN <<>>
    ELSE (IF aBagArg = nullptr
          THEN << InitScoreOf(aInitScoresArg, aBagArg, s) - aTargetsArg[s] >>
          ELSE IF AcceptedByPass(aBagArg[s], directionArg)
          THEN Copies(InitScoreOf(aInitScoresArg, aBagArg, s) - aTargetsArg[s],
                      Abs(aBagArg[s]))
          ELSE <<>>)
         \o ExpectedGradients(aTargetsArg, aInitScoresArg, aBagArg, directionArg, s + 1)

\* C10: the boosting initializer writes initScore - target for every accepted
\* sample (initScore = 0 without an init-score array): the gradient slots hold
\* the accepted samples' gradients in increasing sample order, each |bag[s]|
\* times; with init scores 0 that is -target[s]; without a bag slot i holds
\* initScore[i] - target[i].
C10_BoostingGradients ==
    pc = "returned" =>
        LET aGradients == Flatten(aSubsets)
        IN  /\ aGradients =
                  ExpectedGradients(aTargets, aInitScores, aBag, direction, 1)
            /\ (aInitScores = nullptr \/ \A i \in DOMAIN aInitScores : aInitScores[i] = 0) =>
                  aGradients = ExpectedGradients(aTargets, nullptr, aBag, direction, 1)
            /\ aBag = nullptr =>
                  /\ Len(aGradients) = Len(aTargets)
                  /\ \A i \in 1..Len(aGradients) :
                        aGradients[i] =
                            (IF aInitScores = nullptr THEN 0 ELSE aInitScores[i]) - aTargets[i]

\* the training pass has returned over a bag with a zero, a validation and two
\* training entries, with init scores, the first gradient written across the
\* boundary of two subsets
C10_Witness ==
    /\ pc = "returned"
    /\ direction = 1
    /\ aBag = <<0, 2, -1>>
    /\ aInitScores = <<10, 20>>
    /\ aSubsets = <<<<5>>, <<5>>>>

---------------------------------------------------------------------------
(* Bag sign selection of the boosting initializer *)

\* the number of writes made to the slots of all subsets
TotalWrites(aWritesArg) == SumSeq(Flatten(aWritesArg))

\* an iteration of the boosting loop over a bag has completed in this step
BoostingIterationStep ==
    /\ pc = "RmseBoostingLoop"
    /\ pc' \in {"RmseBoostingLoop", "returned"}
    /\ aBag # nullptr

\* the sample consumed by the iteration of this step (1-based): the target
\* cursor stands right behind it
ConsumedSample == pTargetData'

\* the number of gradients emitted by the iteration of this step
EmittedGradients == TotalWrites(aWrites') - TotalWrites(aWrites)

\* C11: every iteration of the boosting initializer consumes the next index
\* whose bag entry has the sign of the pass (positive for direction +1,
\* negative for direction -1), passing over zero entries and entries of the
\* other sign, and emits |bag[s]| gradients for it; at return no index of the
\* pass is left unconsumed.  For the bag [+1, -2, 0, +3, -1] training consumes
\* indices 0 and 3 emitting 1 and 3, validation 1 and 4 emitting 2 and 1.
C11_BagSignSelection ==
    /\ [][BoostingIterationStep =>
            /\ pTargetData < ConsumedSample
            /\ ConsumedSample <= Len(aBag)
            /\ AcceptedByPass(aBag[ConsumedSample], direction)
            /\ \A t \in (pTargetData + 1)..(ConsumedSample - 1) :
                  ~AcceptedByPass(aBag[t], direction)
            /\ EmittedGradients = Abs(aBag[ConsumedSample])
            /\ aBag = MixedBag =>
                  IF direction = 1
                  THEN /\ ConsumedSample - 1 \in {0, 3}
                       /\ EmittedGradients = (IF ConsumedSample - 1 = 0 THEN 1 ELSE 3)
                       /\ pc' = "returned" <=> ConsumedSample - 1 = 3
                  ELSE /\ ConsumedSample - 1 \in {1, 4}
                       /\ EmittedGradients = (IF ConsumedSample - 1 = 1 THEN 2 ELSE 1)
                       /\ pc' = "returned" <=> ConsumedSample - 1 = 4]_vars
    /\ [](pc = "returned" /\ aBag # nullptr =>
            \A t \in (pTargetData + 1)..Len(aBag) : ~AcceptedByPass(aBag[t], direction))

\* the validation pass over the bag [+1, -2, 0, +3, -1] has returned, its three
\* slots written once each
C11_Witness ==
    /\ pc = "returned"
    /\ aBag = MixedBag
    /\ direction = -1
    /\ pTargetData = 5
    /\ TotalWrites(aWrites) = 3

\* the training pass over the same bag has consumed index 0 and not yet index 3
C11_WitnessTraining ==
    /\ pc = "RmseBoostingLoop"
    /\ aBag = MixedBag
    /\ direction = 1
    /\ pTargetData = 1
    /\ TotalWrites(aWrites) = 1

---------------------------------------------------------------------------
(* InitializeRmseGradientsAndHessiansInteraction *)

\* the scan that advances the init-score cursor for the zero entries too
RECURSIVE BagScanInteraction_ZeroAdvancesInit(_, _, _, _)
BagScanInteraction_ZeroAdvancesInit(aBagArg, p, t, cInitAdvances) ==
    IF p >= Len(aBagArg)
    THEN [bPastEnd |-> TRUE, replication |-> 0, pSampleReplication |-> p,
          pTargetData |-> t, cInitAdvances |-> cInitAdvances]
    ELSE LET replication == aBagArg[p + 1]
         IN  IF replication <= 0
             THEN BagScanInteraction_ZeroAdvancesInit(aBagArg, p + 1, t + 1, cInitAdvances + 1)
             ELSE [bPastEnd |-> FALSE, replication |-> replication,
                   pSampleReplication |-> p + 1, pTargetData |-> t + 1,
                   cInitAdvances |-> cInitAdvances + 1]

\* the scan that accepts the first nonzero entry, whatever its sign
RECURSIVE BagScanInteraction_AnyNonzero(_, _, _, _)
BagScanInteraction_AnyNonzero(aBagArg, p, t, cInitAdvances) ==
    IF p >= Len(aBagArg)
    THEN [bPastEnd |-> TRUE, replication |-> 0, pSampleReplication |-> p,
          pTargetData |-> t, cInitAdvances |-> cInitAdvances]
    ELSE LET replication == aBagArg[p + 1]
         IN  IF replication = 0
             THEN BagScanInteraction_AnyNonzero(aBagArg, p + 1, t + 1, cInitAdvances)
             ELSE [bPastEnd |-> FALSE, replication |-> replication,
                   pSampleReplication |-> p + 1, pTargetData |-> t + 1,
                   cInitAdvances |-> cInitAdvances + 1]

\* the two nested do-while loops over the bag: the inner one passes the zero
\* entries, the outer one repeats while the entry read is negative
RECURSIVE BagScanInteraction(_, _, _, _)
BagScanInteraction(aBagArg, p, t, cInitAdvances) ==
    IF p >= Len(aBagArg)
    THEN [bPastEnd |-> TRUE, replication |-> 0, pSampleReplication |-> p,
          pTargetData |-> t, cInitAdvances |-> cInitAdvances]
    ELSE LET replication == aBagArg[p + 1]
         IN  IF replication = 0
             THEN BagScanInteraction(aBagArg, p + 1, t + 1, cInitAdvances)
             ELSE IF replication < 0
             THEN BagScanInteraction(aBagArg, p + 1, t + 1, cInitAdvances + 1)
             ELSE [bPastEnd |-> FALSE, replication |-> replication,
                   pSampleReplication |-> p + 1, pTargetData |-> t + 1,
                   cInitAdvances |-> cInitAdvances + 1]

\* the weight block that multiplies once per replication
WeightedGradient_PerReplication(gradient, aWeightsArg, pWeightArg, replication) ==
    IF aWeightsArg = nullptr THEN gradient
    ELSE gradient * aWeightsArg[pWeightArg + 1] * replication

\* the gradient after the weight block: multiplied by the weight under the
\* cursor when the subset has weights
WeightedGradient(gradient, aWeightsArg, pWeightArg, replication) ==
    IF aWeightsArg = nullptr THEN gradient ELSE gradient * aWeightsArg[pWeightArg + 1]

\* the write loop that stays in a full subset's successor without taking its
\* first slot: it starts the next subset at its second slot
WriteReplicationsInteraction_SkipSlot(w, gradient, replication) ==
    LET iSubset == w.pSubset + 1
        iSlot == w.pGradientAndHessian + 1
        bSubsetFull == iSlot >= Len(w.aSubsets[iSubset])
        bReturn == bSubsetFull /\ iSubset = Len(w.aSubsets)
    IN  [aSubsets |-> IF iSlot <= Len(w.aSubsets[iSubset])
                      THEN [w.aSubsets EXCEPT ![iSubset][iSlot] = gradient]
                      ELSE w.aSubsets,
         aWrites |-> IF iSlot <= Len(w.aSubsets[iSubset])
                     THEN [w.aWrites EXCEPT ![iSubset][iSlot] = @ + 1]
                     ELSE w.aWrites,
         pSubset |-> IF bSubsetFull THEN w.pSubset + 1 ELSE w.pSubset,
         pGradientAndHessian |->
             IF bSubsetFull /\ ~bReturn THEN 1 ELSE w.pGradientAndHessian + 1,
         pWeight |-> IF bSubsetFull /\ ~bReturn THEN 0 ELSE w.pWeight,
         bReturned |-> bReturn]

\* the do-while loop that writes one gradient replication times; on entering
\* the next subset the weight cursor is set to the start of its weights
\* w = [aSubsets, aWrites, pSubset, pGradientAndHessian, pWeight, bReturned]
RECURSIVE WriteReplicationsInteraction(_, _, _)
WriteReplicationsInteraction(w, gradient, replication) ==
    LET iSubset == w.pSubset + 1
        iSlot == w.pGradientAndHessian + 1
        bSubsetFull == iSlot = Len(w.aSubsets[iSubset])
        bReturn == bSubsetFull /\ iSubset = Len(w.aSubsets)
        wNext == [aSubsets |-> [w.aSubsets EXCEPT ![iSubset][iSlot] = gradient],
                  aWrites |-> [w.aWrites EXCEPT ![iSubset][iSlot] = @ + 1],
                  pSubset |-> IF bSubsetFull THEN w.pSubset + 1 ELSE w.pSubset,
                  pGradientAndHessian |->
                      IF bSubsetFull /\ ~bReturn THEN 0 ELSE w.pGradientAndHessian + 1,
                  pWeight |-> IF bSubsetFull /\ ~bReturn THEN 0 ELSE w.pWeight,
                  bReturned |-> bReturn]
    IN  IF bReturn
        THEN wNext
        ELSE IF replication - 1 # 0
        THEN WriteReplicationsInteraction(wNext, gradient, replication - 1)
        ELSE wNext

InitInteraction ==
    /\ pc = "InitializeRmseGradientsAndHessiansInteraction"
    /\ pGradientAndHessian = 0
    /\ KernelIdle
    /\ OthersIdle
    /\ direction = 1
    /\ \E cSharedSamples \in 1..MaxBagLength \cup {Len(MixedBag)} :
          /\ aTargets \in TargetArrays(cSharedSamples)
          /\ aBag \in Bags(cSharedSamples)
          /\ 1 <= CountSlots(aBag, cSharedSamples, 1)
          /\ aInitScores \in InitScoreArrays(
                IF aBag = nullptr THEN cSharedSamples
                ELSE CountNonzero(aBag, cSharedSamples))
          /\ aSubsets \in SubsetLayouts(CountSlots(aBag, cSharedSamples, 1))
          /\ aSubsetWeights \in
                SubsetWeights(aSubsets, SlotOwners(aBag, cSharedSamples, 1, 1))
    /\ aWrites = aSubsets
    /\ pSampleReplication = 0
    /\ pTargetData = 0
    /\ pInitScore = 0
    /\ pSubset = 0

\* the kernel's variables other than the weight cursor
kernelVarsButWeight == <<cRuntimeClasses, pTerm, pDataSet, aInvoked, cCompilerClasses,
                         cCompilerDimensions, iSample, aBins, NDEBUG>>

\* the function up to its loop: the cursors at the start of their arrays
InitializeRmseGradientsAndHessiansInteraction ==
    /\ pc = "InitializeRmseGradientsAndHessiansInteraction"
    /\ pc' = "RmseInteractionLoop"
    /\ pSampleReplication' = 0
    /\ pTargetData' = 0
    /\ pInitScore' = 0
    /\ pSubset' = 0
    /\ pGradientAndHessian' = 0
    /\ pWeight' = 0
    /\ UNCHANGED <<direction, aBag, aInitScores, aTargets, aSubsets, aWrites, aSubsetWeights>>
    /\ UNCHANGED <<kernelVarsButWeight, otherVars>>

\* one iteration of while(true): find the next accepted sample, compute its
\* gradient, multiply it by the weight under the cursor, write it replication
\* times; the function returns from inside the iteration that fills the last slot
RmseInteractionIteration ==
    /\ pc = "RmseInteractionLoop"
    /\ LET scan == IF aBag # nullptr
                   THEN BagScanInteraction(aBag, pSampleReplication, pTargetData, 1)
                   ELSE [bPastEnd |-> FALSE, replication |-> 1,
                         pSampleReplication |-> pSampleReplication,
                         pTargetData |-> pTargetData + 1, cInitAdvances |-> 2]
           pTargetDataRead == scan.pTargetData - 1
           cInitAdvances == scan.cInitAdvances - 1
           pInitScoreNext == IF aInitScores # nullptr
                             THEN pInitScore + cInitAdvances ELSE pInitScore
           aWeightsNow == aSubsetWeights[pSubset + 1]
           bPastEnd == \/ scan.bPastEnd
                       \/ pTargetDataRead >= Len(aTargets)
                       \/ aInitScores # nullptr /\ pInitScoreNext > Len(aInitScores)
                       \/ aWeightsNow # nullptr /\ pWeight >= Len(aWeightsNow)
       IN  IF bPastEnd
           THEN /\ pc' = "undefined"
                /\ UNCHANGED <<pGradientAndHessian, aSubsets, aWrites, pSampleReplication,
                               pTargetData, pInitScore, pSubset, pWeight>>
           ELSE LET data == aTargets[pTargetDataRead + 1]
                    initScore == IF aInitScores # nullptr
                                 THEN SafeConvertFloat(aInitScores[pInitScoreNext])
                                 ELSE 0
                    gradient == WeightedGradient(
                                    ComputeGradientRegressionRmseInit(initScore, data),
                                    aWeightsNow, pWeight, scan.replication)
                    w == WriteReplicationsInteraction(
                             [aSubsets |-> aSubsets, aWrites |-> aWrites,
                              pSubset |-> pSubset,
                              pGradientAndHessian |-> pGradientAndHessian,
                              pWeight |-> IF aWeightsNow # nullptr
                                          THEN pWeight + scan.replication ELSE pWeight,
                              bReturned |-> FALSE],
                             gradient, scan.replication)
                IN  /\ pc' = IF w.bReturned THEN "returned" ELSE "RmseInteractionLoop"
                    /\ pSampleReplication' = scan.pSampleReplication
                    /\ pTargetData' = pTargetDataRead + 1
                    /\ pInitScore' = pInitScoreNext
                    /\ aSubsets' = w.aSubsets
                    /\ aWrites' = w.aWrites
                    /\ pSubset' = w.pSubset
                    /\ pGradientAndHessian' = w.pGradientAndHessian
                    /\ pWeight' = w.pWeight
    /\ UNCHANGED <<direction, aBag, aInitScores, aTargets, aSubsetWeights>>
    /\ UNCHANGED <<kernelVarsButWeight, otherVars>>

NextInteraction == InitializeRmseGradientsAndHessiansInteraction \/ RmseInteractionIteration

SpecInteraction == InitInteraction /\ [][NextInteraction]_vars

---------------------------------------------------------------------------
(* Both initializers, each running to its return *)

InitInitializers == InitBoosting \/ InitInteraction

NextInitializers == NextBoosting \/ NextInteraction

\* a call that can take a step takes it: the function runs on one thread and
\* nothing suspends it
SpecInitializers ==
    InitInitializers /\ [][NextInitializers]_vars /\ WF_vars(NextInitializers)

\* an iteration of either initializer's loop has completed in this step
InitializerIterationStep ==
    /\ pc \in {"RmseBoostingLoop", "RmseInteractionLoop"}
    /\ pc' \in {pc, "returned"}

\* the replication of the sample consumed by the iteration of this step
ConsumedReplication == IF aBag = nullptr THEN 1 ELSE aBag[pTargetData']

\* the number of the slot the write cursor stands on, counting through the
\* subsets in order from 0
WriteCursor(aSubsetsArg, pSubsetArg, pGradientAndHessianArg) ==
    SlotsBefore(aSubsetsArg, pSubsetArg + 1) + pGradientAndHessianArg

\* the slots before the cursor have been written once, the others not yet
WrittenOnceUpTo(aWritesArg, cWritten) ==
    LET aFlat == Flatten(aWritesArg)
    IN  \A j \in 1..Len(aFlat) : aFlat[j] = (IF j <= cWritten THEN 1 ELSE 0)

\* the slots of the pass: the multiplicities of the samples the initializer accepts
SlotsMatchAccepted ==
    Len(Flatten(aSubsets)) = CountSlots(aBag, Len(aTargets), direction)

\* C12: provided the accepted multiplicities add up to the number of slots, each
\* iteration of either initializer writes its sample's gradient to |replication|
\* consecutive slots in subset order, continuing at the first slot of the next
\* subset when one is full and leaving the slots written earlier alone; no read
\* passes the end of an array; every iteration writes at least one slot and the
\* call returns in the iteration that writes the last slot, so it returns after
\* at most as many iterations as there are slots, and then every slot of every
\* subset has been written exactly once.
C12_ReplicatedWritesTerminate ==
    /\ [](SlotsMatchAccepted =>
            /\ pc # "undefined"
            /\ pc \in {"RmseBoostingLoop", "RmseInteractionLoop"} =>
                  /\ pSubset < Len(aSubsets)
                  /\ pGradientAndHessian < Len(aSubsets[pSubset + 1])
                  /\ WrittenOnceUpTo(aWrites,
                        WriteCursor(aSubsets, pSubset, pGradientAndHessian))
            /\ pc = "returned" =>
                  /\ pSubset = Len(aSubsets)
                  /\ WrittenOnceUpTo(aWrites, Len(Flatten(aSubsets))))
    /\ [][SlotsMatchAccepted /\ InitializerIterationStep =>
            LET cBefore == TotalWrites(aWrites)
                cAfter == TotalWrites(aWrites')
                aBefore == Flatten(aSubsets)
                aAfter == Flatten(aSubsets')
            IN  /\ cAfter - cBefore = Abs(ConsumedReplication)
                /\ cAfter > cBefore
                /\ pc' = "returned" <=> cAfter = Len(aAfter)
                /\ \A j \in 1..Len(aAfter) :
                      IF j <= cBefore \/ j > cAfter
                      THEN aAfter[j] = aBefore[j]
                      ELSE aAfter[j] = aAfter[cBefore + 1]
                /\ WrittenOnceUpTo(aWrites', cAfter)]_vars

\* the interaction initializer has returned after a sample of replication 2
\* whose two writes went to the last slot of the first subset and the first
\* slot of the second
C12_Witness ==
    /\ pc = "returned"
    /\ aBag = <<1, 2>>
    /\ aInitScores = nullptr
    /\ aSubsetWeights = <<<<2, 3>>, <<3>>>>
    /\ aSubsets = <<<<-6, -15>>, <<-15>>>>
    /\ aWrites = <<<<1, 1>>, <<1>>>>

---------------------------------------------------------------------------
(* Which bag entries the interaction initializer accepts *)

\* an iteration of the interaction loop over a bag has completed in this step
InteractionIterationStep ==
    /\ pc = "RmseInteractionLoop"
    /\ pc' \in {"RmseInteractionLoop", "returned"}
    /\ aBag # nullptr

\* a bag entry is in scope: positive, or also negative when bNegativeToo
InScope(replication, bNegativeToo) ==
    replication > 0 \/ (bNegativeToo /\ replication < 0)

\* the iteration of this step consumed the next in-scope index and wrote its
\* gradient |bag[s]| times
IterationTakesNextInScope(bNegativeToo) ==
    /\ pTargetData < ConsumedSample
    /\ ConsumedSample <= Len(aBag)
    /\ InScope(aBag[ConsumedSample], bNegativeToo)
    /\ \A t \in (pTargetData + 1)..(ConsumedSample - 1) : ~InScope(aBag[t], bNegativeToo)
    /\ EmittedGradients = Abs(aBag[ConsumedSample])

\* at return no in-scope index is left unconsumed
NoneInScopeLeft(bNegativeToo) ==
    pc = "returned" /\ aBag # nullptr =>
        \A t \in (pTargetData + 1)..Len(aBag) : ~InScope(aBag[t], bNegativeToo)

\* C13 as stated: the interaction initializer accepts every sample with a
\* positive or a negative bag entry, writes its gradient |bag[s]| times, and
\* skips only the zero entries.
C13_AllNonzeroInScope ==
    /\ [][InteractionIterationStep => IterationTakesNextInScope(TRUE)]_vars
    /\ []NoneInScopeLeft(TRUE)

\* C13 amended: the interaction initializer accepts exactly the samples with a
\* positive bag entry, writes each one's gradient bag[s] times, and skips the
\* zero and the negative entries.
C13_OnlyPositiveInScope ==
    /\ [][InteractionIterationStep => IterationTakesNextInScope(FALSE)]_vars
    /\ []NoneInScopeLeft(FALSE)

\* the interaction initializer has returned over a bag with a negative, a
\* positive and a zero entry: its only slot holds the gradient of the positive one
C13_Witness ==
    /\ pc = "returned"
    /\ aBag = <<-2, 1, 0>>
    /\ aInitScores = <<10, 20>>
    /\ aSubsetWeights = <<nullptr>>
    /\ aSubsets = <<<<15>>>>
    /\ pTargetData = 2

---------------------------------------------------------------------------
(* The weight in the two initializers *)

\* the slots written by the iteration of this step all hold val
IterationWrote(val) ==
    LET cBefore == TotalWrites(aWrites)
        cAfter == TotalWrites(aWrites')
        aAfter == Flatten(aSubsets')
    IN  /\ cAfter - cBefore = Abs(ConsumedReplication)
        /\ \A j \in (cBefore + 1)..cAfter : aAfter[j] = val

\* initScore - target of the sample consumed by the iteration of this step
ConsumedGradient ==
    InitScoreOf(aInitScores, aBag, ConsumedSample) - aTargets[ConsumedSample]

\* C14: with weights the interaction initializer writes (initScore - target)
\* times the consumed sample's weight to each of the sample's |replication|
\* slots (the weight applied once, not once per replication), without weights
\* initScore - target; the boosting initializer writes initScore - target
\* whatever the weights are.
C14_WeightAsymmetry ==
    [][/\ (pc = "RmseInteractionLoop" /\ pc' \in {pc, "returned"}) =>
             IterationWrote(
                 IF aSubsetWeights[pSubset + 1] = nullptr
                 THEN ConsumedGradient
                 ELSE ConsumedGradient * SharedWeight(ConsumedSample))
       /\ (pc = "RmseBoostingLoop" /\ pc' \in {pc, "returned"}) =>
             IterationWrote(ConsumedGradient)]_vars

\* the same with the weight the cursor stands on in place of the consumed
\* sample's weight
WeightUnderCursorAppliedOnce ==
    [][/\ (pc = "RmseInteractionLoop" /\ pc' \in {pc, "returned"}) =>
             IterationWrote(
                 IF aSubsetWeights[pSubset + 1] = nullptr
                 THEN ConsumedGradient
                 ELSE ConsumedGradient * aSubsetWeights[pSubset + 1][pWeight + 1])
       /\ (pc = "RmseBoostingLoop" /\ pc' \in {pc, "returned"}) =>
             IterationWrote(ConsumedGradient)]_vars

---------------------------------------------------------------------------
(* BinSumsInteraction on a dataset that breaks the contract 0 <= b_d < cBins[d] *)

\* bin tuples with one bin just past its feature's range: in the first
\* dimension, or in the last
OutOfRangeBinTuples(term) ==
    { [iDimension \in 1..Len(term) |-> IF iDimension = iBad THEN term[iDimension] ELSE 0] :
        iBad \in {1, Len(term)} }

\* the feature columns over cSamples samples of which at least one has an
\* out-of-range bin
InputColumnsOutOfRange(term, cSamples) ==
    { ColumnsOfTuples(term, aTuples) :
        aTuples \in { a \in [1..cSamples -> SampleBinTuples(term) \cup OutOfRangeBinTuples(term)] :
                         \E s \in 1..cSamples : a[s] \in OutOfRangeBinTuples(term) } }

InitOutOfRange ==
    /\ pc = "BinSumsInteraction"
    /\ cRuntimeClasses \in {k_regression, 2}
    /\ \E cDimensions \in 1..k_cCompilerOptimizedCountDimensionsMax :
          pTerm \in TermsOf(cDimensions)
    /\ \E cSamples \in 1..MaxSamples :
          pDataSet \in
              { [cSamples |-> cSamples,
                 aInputData |-> aInputData,
                 aWeights |-> aWeights,
                 aGradientsAndHessians |->
                     GradientBuffer([s \in 1..cSamples |-> 1 + (s % 2)],
                                    IsClassification(cRuntimeClasses),
                                    GetCountScores(cRuntimeClasses))] :
                  aInputData \in InputColumnsOutOfRange(pTerm, cSamples),
                  aWeights \in {nullptr, [s \in 1..cSamples |-> 1 + (s % 2)]} }
    /\ aInvoked = <<>>
    /\ cCompilerClasses = k_dynamicClassification
    /\ cCompilerDimensions = k_dynamicDimensions
    /\ iSample = 0
    /\ pGradientAndHessian = 0
    /\ pWeight = 0
    /\ aBins = ZeroTensor(ProdSeq(pTerm), IsClassification(cRuntimeClasses),
                          GetCountScores(cRuntimeClasses))
    /\ NDEBUG \in BOOLEAN
    /\ InitializerIdle
    /\ OthersIdle

SpecOutOfRange == InitOutOfRange /\ [][Next]_vars

\* sample s (0-based) has a bin outside its feature's range
SampleOutOfRange(term, ds, s) ==
    \E iDimension \in 1..Len(term) : ds.aInputData[iDimension][s + 1] >= term[iDimension]

\* the first sample (0-based) with an out-of-range bin
FirstOutOfRange(term, ds) ==
    CHOOSE s \in 0..(ds.cSamples - 1) :
        /\ SampleOutOfRange(term, ds, s)
        /\ \A t \in 0..(s - 1) : ~SampleOutOfRange(term, ds, t)

\* the tensor after aggregating the first cFirst samples only
TensorOfFirst(cFirst) ==
    KernelRun(KernelEntry(ZeroTensor(ProdSeq(pTerm), IsClassification(cRuntimeClasses),
                                     GetCountScores(cRuntimeClasses))),
              cCompilerClasses, cCompilerDimensions, cRuntimeClasses, pTerm,
              [pDataSet EXCEPT !.cSamples = cFirst]).aBins

\* the aggregation stops at the first out-of-range sample: it does not go past
\* it, does not return, touches nothing outside the tensor, and when it has
\* aborted the tensor holds the samples before that one and nothing else
StopsAtFirstOutOfRange ==
    LET sBad == FirstOutOfRange(pTerm, pDataSet)
    IN  /\ pc \notin {"done", "undefined"}
        /\ pc = "kernel" => iSample <= sBad
        /\ pc = "aborted" =>
              /\ iSample = sBad
              /\ aBins = TensorOfFirst(sBad)

\* C18 as stated: on a dataset with an out-of-range bin the aggregation aborts
\* at the first such sample, before any bin is read or modified for it and
\* without processing later samples.
C18_FailsFast ==
    (\E s \in 0..(pDataSet.cSamples - 1) : SampleOutOfRange(pTerm, pDataSet, s)) =>
        StopsAtFirstOutOfRange

\* C18 amended: in a build with assertions (NDEBUG not defined) the aggregation
\* aborts at the first sample with an out-of-range bin, before any bin is
\* modified for it and without processing later samples; a build without
\* assertions never aborts.
C18_FailsFastWithAssertions ==
    (\E s \in 0..(pDataSet.cSamples - 1) : SampleOutOfRange(pTerm, pDataSet, s)) =>
        /\ ~NDEBUG => StopsAtFirstOutOfRange
        /\ NDEBUG => pc # "aborted"

\* a build with assertions has aborted at the second sample, the first one
\* aggregated into its bin
C18_Witness ==
    /\ pc = "aborted"
    /\ ~NDEBUG
    /\ iSample = 1
    /\ pDataSet.cSamples = 2
    /\ SampleOutOfRange(pTerm, pDataSet, 1)
    /\ aBins[0].m_cSamples = 1

---------------------------------------------------------------------------
(* TreeSweep.hpp: the size of one tree-sweep record.  Sizes are counted in   *)
(* units of one pointer (= one size_t = one FloatBig); size_t has SizeBits   *)
(* bits.                                                                     *)

\* the width of size_t
SizeBits == 5
\* the largest size_t
SizeMax == 2 ^ SizeBits - 1

\* sizeof(GradientPair<FloatBig, bClassification>): gradient and, for
\* classification, Hessian
SizeofGradientPair(bClassification) == IF bClassification THEN 2 ELSE 1

\* sizeof(Bin<FloatBig, bClassification>): m_cSamples, m_weight and one inline
\* gradient pair
SizeofBin(bClassification) == 2 + SizeofGradientPair(bClassification)

\* sizeof(TreeSweep<bClassification>): m_pBestBin and m_bestBinLeft
SizeofTreeSweep(bClassification) == 1 + SizeofBin(bClassification)

\* IsAddError(a, b): a + b does not fit in size_t
IsAddError(a, b) == a + b > SizeMax

\* IsOverflowBinSize: the bin of cScores gradient pairs does not fit in size_t
IsOverflowBinSize(bClassification, cScores) ==
    SizeofBin(bClassification) - SizeofGradientPair(bClassification)
        + SizeofGradientPair(bClassification) * cScores > SizeMax

\* GetBinSize: the bin header and cScores gradient pairs
GetBinSize(bClassification, cScores) ==
    (SizeofBin(bClassification) - SizeofGradientPair(bClassification)
        + SizeofGradientPair(bClassification) * cScores) % (SizeMax + 1)

\* the overflow test on the whole struct, the inline bin not taken off
IsOverflowTreeSweepSize_WholeStruct(bClassification, cScores) ==
    IsAddError(IF bClassification THEN SizeofTreeSweep(TRUE) ELSE SizeofTreeSweep(FALSE), GetBinSize(bClassification, cScores))

IsOverflowTreeSweepSize(bClassification, cScores) ==
    LET cBytesPerBin == GetBinSize(bClassification, cScores)
        cBytesTreeSweepComponent ==
            IF bClassification
            THEN SizeofTreeSweep(TRUE) - SizeofBin(TRUE)
            ELSE SizeofTreeSweep(FALSE) - SizeofBin(FALSE)
    IN  IF IsAddError(cBytesTreeSweepComponent, cBytesPerBin) THEN TRUE ELSE FALSE

GetTreeSweepSize(bClassification, cScores) ==
    LET cBytesPerBin == GetBinSize(bClassification, cScores)
        cBytesTreeSweepComponent ==
            IF bClassification
            THEN SizeofTreeSweep(TRUE) - SizeofBin(TRUE)
            ELSE SizeofTreeSweep(FALSE) - SizeofBin(FALSE)
    IN  (cBytesTreeSweepComponent + cBytesPerBin) % (SizeMax + 1)

\* the library's variables while none of its functions runs
LibraryIdle ==
    /\ pGradientAndHessian = 0
    /\ KernelIdle
    /\ InitializerIdle

\* the caller has checked IsOverflowBinSize before (asserted at line 73)
InitTreeSweep ==
    /\ pc = "TreeSweepSize"
    /\ sweepArgs \in { a \in [bClassification : BOOLEAN, cScores : 1..SizeMax] :
                          ~IsOverflowBinSize(a.bClassification, a.cScores) }
    /\ bOverflowTreeSweep = <<>>
    /\ cBytesPerTreeSweep = <<>>
    /\ LibraryIdle
    /\ LaterIdle
    /\ MainIdle
    /\ exitCode = <<>>
    /\ TestBoostIdle

CallIsOverflowTreeSweepSize ==
    /\ pc = "TreeSweepSize"
    /\ bOverflowTreeSweep = <<>>
    /\ bOverflowTreeSweep' =
          << IsOverflowTreeSweepSize(sweepArgs.bClassification, sweepArgs.cScores) >>
    /\ UNCHANGED <<pc, sweepArgs, cBytesPerTreeSweep>>
    /\ UNCHANGED <<pGradientAndHessian, kernelVars, initializerVars, mainVars, exitCode,
                 testBoostVars, laterVars>>

CallGetTreeSweepSize ==
    /\ pc = "TreeSweepSize"
    /\ cBytesPerTreeSweep = <<>>
    /\ cBytesPerTreeSweep' =
          << GetTreeSweepSize(sweepArgs.bClassification, sweepArgs.cScores) >>
    /\ UNCHANGED <<pc, sweepArgs, bOverflowTreeSweep>>
    /\ UNCHANGED <<pGradientAndHessian, kernelVars, initializerVars, mainVars, exitCode,
                 testBoostVars, laterVars>>

NextTreeSweep == CallIsOverflowTreeSweepSize \/ CallGetTreeSweepSize

SpecTreeSweep == InitTreeSweep /\ [][NextTreeSweep]_vars

\* headerSize: the TreeSweep struct without its inline bin
HeaderSize(bClassification) == SizeofTreeSweep(bClassification) - SizeofBin(bClassification)

\* C17: GetTreeSweepSize is headerSize + GetBinSize in size_t arithmetic;
\* IsOverflowTreeSweepSize is true exactly when headerSize + GetBinSize
\* exceeds the largest size_t, so when it is false GetTreeSweepSize is the
\* exact sum.
C17_TreeSweepSize ==
    pc = "TreeSweepSize" =>
        LET bClassification == sweepArgs.bClassification
            cScores == sweepArgs.cScores
            cExact == HeaderSize(bClassification) + GetBinSize(bClassification, cScores)
        IN  /\ HeaderSize(bClassification) = 1
            /\ cBytesPerTreeSweep # <<>> =>
                  cBytesPerTreeSweep[1] = cExact % (SizeMax + 1)
            /\ bOverflowTreeSweep # <<>> =>
                  (bOverflowTreeSweep[1] <=> cExact > SizeMax)
            /\ (bOverflowTreeSweep = <<FALSE>> /\ cBytesPerTreeSweep # <<>>) =>
                  cBytesPerTreeSweep[1] = cExact

\* both functions were called for a regression bin that fills size_t: the
\* overflow is reported and the size has wrapped around to 0
C17_Witness ==
    /\ pc = "TreeSweepSize"
    /\ sweepArgs = [bClassification |-> FALSE, cScores |-> SizeMax - 2]
    /\ bOverflowTreeSweep = <<TRUE>>
    /\ cBytesPerTreeSweep = <<0>>

---------------------------------------------------------------------------
(* libebm_test.cpp: main and the registered test cases *)

\* largest number of registered test cases
MaxTests == 3
\* largest number of FAILED calls of one test case
MaxFailures == 2

\* FAILED: the test case is marked as not passed
FAILED(testCaseHidden) == [testCaseHidden EXCEPT !.m_bPassed = FALSE]

\* cCalls calls of FAILED on a test case
RECURSIVE FailedTimes(_, _)
FailedTimes(testCaseHidden, cCalls) ==
    IF cCalls = 0 THEN testCaseHidden
    ELSE FailedTimes(FAILED(testCaseHidden), cCalls - 1)

\* the elements of aTests with priority testPriority, the later ones first
RECURSIVE WithPriority_Unstable(_, _)
WithPriority_Unstable(aTests, testPriority) ==
    IF aTests = <<>> THEN <<>>
    ELSE WithPriority_Unstable(Tail(aTests), testPriority)
         \o (IF Head(aTests).m_testPriority = testPriority THEN <<Head(aTests)>> ELSE <<>>)

\* the elements of aTests with priority testPriority, in their order
RECURSIVE WithPriority(_, _)
WithPriority(aTests, testPriority) ==
    IF aTests = <<>> THEN <<>>
    ELSE (IF Head(aTests).m_testPriority = testPriority THEN <<Head(aTests)>> ELSE <<>>)
         \o WithPriority(Tail(aTests), testPriority)

\* std::stable_sort by m_testPriority, priorities from testPriority on
RECURSIVE StableSortFrom(_, _, _)
StableSortFrom(aTests, testPriority, testPriorityLast) ==
    IF testPriority > testPriorityLast THEN <<>>
    ELSE WithPriority(aTests, testPriority)
         \o StableSortFrom(aTests, testPriority + 1, testPriorityLast)

\* the loop body after the test function, leaving bPassed as the last test left it
MainAfterTest_LastTestOnly(bPassedArg, testCaseHidden) == testCaseHidden.m_bPassed

\* the loop body after the test function: bPassed is cleared when the test
\* case did not pass, and stays otherwise
MainAfterTest(bPassedArg, testCaseHidden) ==
    IF testCaseHidden.m_bPassed THEN bPassedArg ELSE FALSE

\* the registered test cases: in registration order, each with a priority,
\* constructed as passed and not run yet
RegisteredTests ==
    UNION { { [iRegistered \in 1..cTests |->
                 [m_description |-> iRegistered, m_testPriority |-> aPriority[iRegistered],
                  m_bPassed |-> TRUE, cRuns |-> 0]] :
              aPriority \in [1..cTests -> 0..1] } :
            cTests \in 0..MaxTests }

InitMain ==
    /\ pc = "main"
    /\ g_allTestsHidden \in RegisteredTests
    /\ iTestCase = 0
    /\ bPassed = TRUE
    /\ exitCode = <<>>
    /\ TreeSweepIdle
    /\ TestBoostIdle
    /\ LibraryIdle
    /\ LaterIdle

\* main up to its loop: the copy of the registered test cases, sorted
MainStart ==
    /\ pc = "main"
    /\ pc' = "main loop"
    /\ g_allTestsHidden' = StableSortFrom(g_allTestsHidden, 0, 1)
    /\ bPassed' = TRUE
    /\ iTestCase' = 0
    /\ UNCHANGED exitCode
    /\ UNCHANGED <<pGradientAndHessian, kernelVars, initializerVars, treeSweepVars,
                 testBoostVars, laterVars>>

\* one iteration of the loop: the test function runs, calling FAILED any
\* number of times, and returns, or ends the process with exit(1) as the
\* harness's TestBoost and TestInteraction methods do on an error
RunTestCase ==
    /\ pc = "main loop"
    /\ iTestCase < Len(g_allTestsHidden)
    /\ \E cFailed \in 0..MaxFailures, bExit \in BOOLEAN :
          LET testCaseHidden ==
                  FailedTimes([g_allTestsHidden[iTestCase + 1] EXCEPT !.cRuns = @ + 1],
                              cFailed)
          IN  /\ g_allTestsHidden' = [g_allTestsHidden EXCEPT ![iTestCase + 1] = testCaseHidden]
              /\ IF bExit
                 THEN /\ pc' = "exited"
                      /\ exitCode' = <<1>>
                      /\ UNCHANGED <<bPassed, iTestCase>>
                 ELSE /\ bPassed' = MainAfterTest(bPassed, testCaseHidden)
                      /\ iTestCase' = iTestCase + 1
                      /\ UNCHANGED <<pc, exitCode>>
    /\ UNCHANGED <<pGradientAndHessian, kernelVars, initializerVars, treeSweepVars,
                 testBoostVars, laterVars>>

\* the loop is over: main returns 0 when bPassed, 1 otherwise
MainReturn ==
    /\ pc = "main loop"
    /\ iTestCase = Len(g_allTestsHidden)
    /\ pc' = "main returned"
    /\ exitCode' = << IF bPassed THEN 0 ELSE 1 >>
    /\ UNCHANGED <<g_allTestsHidden, iTestCase, bPassed>>
    /\ UNCHANGED <<pGradientAndHessian, kernelVars, initializerVars, treeSweepVars,
                 testBoostVars, laterVars>>

NextMain == MainStart \/ RunTestCase \/ MainReturn

SpecMain == InitMain /\ [][NextMain]_vars

\* C15: no test case is run twice; when main returns every registered test
\* case has run exactly once, whether or not an earlier one failed, and the
\* exit code is 0 exactly when every test case still has m_bPassed true; a
\* process that has ended after FAILED was called for some test case has
\* exit code 1.
C15_MainExitCode ==
    LET iTests == 1..Len(g_allTestsHidden)
    IN  /\ \A i \in iTests : g_allTestsHidden[i].cRuns <= 1
        /\ pc = "main returned" =>
              /\ \A i \in iTests : g_allTestsHidden[i].cRuns = 1
              /\ {g_allTestsHidden[i].m_description : i \in iTests} = iTests
              /\ exitCode = <<0>> <=> \A i \in iTests : g_allTestsHidden[i].m_bPassed
              /\ exitCode \in {<<0>>, <<1>>}
        /\ (exitCode # <<>> /\ \E i \in iTests : ~g_allTestsHidden[i].m_bPassed) =>
              exitCode = <<1>>

\* main has returned 1 after three test cases of which the first one run
\* failed and the last one passed
C15_Witness ==
    /\ pc = "main returned"
    /\ Len(g_allTestsHidden) = 3
    /\ ~g_allTestsHidden[1].m_bPassed
    /\ g_allTestsHidden[2].m_bPassed
    /\ g_allTestsHidden[3].m_bPassed
    /\ g_allTestsHidden[3].cRuns = 1
    /\ g_allTestsHidden[1].m_description = 2
    /\ exitCode = <<1>>

---------------------------------------------------------------------------
(* libebm_test.cpp: TestBoost::Boost *)

\* largest number of Boost calls on one TestBoost object
MaxBoostCalls == 2

Error_None == 0
Error_UnexpectedInternal == -3

\* the boost flags a call may combine
BoostFlagsChoices == SUBSET {"BoostFlags_GradientSums", "BoostFlags_DisableNewtonGain"}

\* the terms of a TestBoost object: for each term the bin counts of its features
TermBinsChoices == { << <<2>> >>, << <<2>>, <<0, 2>> >>, << <<2, 3>>, <<1>> >> }

\* the argument checks at the head of Boost
BoostArgumentsOk(aTermBins, indexTerm, learningRate, minSamplesLeaf) ==
    /\ ~(indexTerm < 0)
    /\ ~(Len(aTermBins) <= indexTerm)
    /\ learningRate # "nan"
    /\ learningRate # "inf"
    /\ ~(minSamplesLeaf < 0)

\* new double[cUpdateScores] after memset, nullptr for no scores
ZeroUpdateScores(cUpdateScores) ==
    IF cUpdateScores # 0 THEN [i \in 1..cUpdateScores |-> 0] ELSE nullptr

\* the libebm calls of Boost, going on to ApplyTermUpdate whatever SetTermUpdate returned
BoostApiCalls_IgnoreSetError(cClasses, aTermBins, indexTerm, flags, errorGenerate, errorSet, errorApply) ==
    LET generate == [api |-> "GenerateTermUpdate", indexTerm |-> indexTerm, flags |-> flags,
                     aUpdateScores |-> nullptr, error |-> errorGenerate]
        cUpdateScores == GetCountScores(cClasses) * ProdSeq(aTermBins[indexTerm + 1])
        set == [api |-> "SetTermUpdate", indexTerm |-> indexTerm, flags |-> flags,
                aUpdateScores |-> ZeroUpdateScores(cUpdateScores), error |-> errorSet]
        apply == [api |-> "ApplyTermUpdate", indexTerm |-> indexTerm, flags |-> flags,
                  aUpdateScores |-> nullptr, error |-> errorApply]
    IN  IF Error_None # errorGenerate
        THEN <<generate>>
        ELSE IF "BoostFlags_GradientSums" \in flags
             THEN <<generate, set, apply>>
             ELSE <<generate, apply>>

\* the libebm calls of Boost once its arguments have passed the checks, up
\* to the first one that returns an error
BoostApiCalls(cClasses, aTermBins, indexTerm, flags, errorGenerate, errorSet, errorApply) ==
    LET generate == [api |-> "GenerateTermUpdate", indexTerm |-> indexTerm, flags |-> flags,
                     aUpdateScores |-> nullptr, error |-> errorGenerate]
        cUpdateScores == GetCountScores(cClasses) * ProdSeq(aTermBins[indexTerm + 1])
        set == [api |-> "SetTermUpdate", indexTerm |-> indexTerm, flags |-> flags,
                aUpdateScores |-> ZeroUpdateScores(cUpdateScores), error |-> errorSet]
        apply == [api |-> "ApplyTermUpdate", indexTerm |-> indexTerm, flags |-> flags,
                  aUpdateScores |-> nullptr, error |-> errorApply]
    IN  IF Error_None # errorGenerate
        THEN <<generate>>
        ELSE IF "BoostFlags_GradientSums" \in flags
             THEN IF Error_None # errorSet
                  THEN <<generate, set>>
                  ELSE <<generate, set, apply>>
             ELSE <<generate, apply>>

InitTestBoost ==
    /\ pc = "TestBoost"
    /\ m_cClasses \in {k_regression, 2, 3}
    /\ m_iZeroClassificationLogit = -1
    /\ m_termBins \in TermBinsChoices
    /\ aBoostCalls = <<>>
    /\ aApiCalls = <<>>
    /\ aBestTermScores = <<>>
    /\ termScoreCall = <<>>
    /\ termScore = <<>>
    /\ exitCode = <<>>
    /\ MainIdle
    /\ TreeSweepIdle
    /\ LibraryIdle
    /\ LaterIdle

\* one call of TestBoost::Boost
Boost ==
    /\ pc = "TestBoost"
    /\ Len(aBoostCalls) < MaxBoostCalls
    /\ \E indexTerm \in -1..Len(m_termBins), flags \in BoostFlagsChoices,
          learningRate \in {"finite", "nan", "inf"}, minSamplesLeaf \in {-1, 0},
          errorGenerate \in {Error_None, Error_UnexpectedInternal},
          errorSet \in {Error_None, Error_UnexpectedInternal},
          errorApply \in {Error_None, Error_UnexpectedInternal} :
          LET iBoost == Len(aBoostCalls) + 1
              args == [indexTerm |-> indexTerm, flags |-> flags,
                       learningRate |-> learningRate, minSamplesLeaf |-> minSamplesLeaf]
          IN  IF ~BoostArgumentsOk(m_termBins, indexTerm, learningRate, minSamplesLeaf)
              THEN /\ pc' = "exited"
                   /\ exitCode' = <<1>>
                   /\ aBoostCalls' = Append(aBoostCalls, [args |-> args, bReturned |-> FALSE])
                   /\ UNCHANGED aApiCalls
              ELSE LET calls == BoostApiCalls(m_cClasses, m_termBins, indexTerm, flags,
                                              errorGenerate, errorSet, errorApply)
                       bError == Error_None # calls[Len(calls)].error
                   IN  /\ aApiCalls' = aApiCalls \o
                             [i \in 1..Len(calls) |-> [iBoost |-> iBoost, call |-> calls[i]]]
                       /\ aBoostCalls' = Append(aBoostCalls, [args |-> args, bReturned |-> ~bError])
                       /\ IF bError
                          THEN pc' = "exited" /\ exitCode' = <<1>>
                          ELSE UNCHANGED <<pc, exitCode>>
    /\ UNCHANGED <<m_cClasses, m_iZeroClassificationLogit, m_termBins, aBestTermScores,
                   termScoreCall, termScore>>
    /\ UNCHANGED <<pGradientAndHessian, kernelVars, initializerVars, treeSweepVars, mainVars,
                   laterVars>>

NextTestBoost == Boost

SpecTestBoost == InitTestBoost /\ [][NextTestBoost]_vars

\* the libebm calls issued by Boost call number iBoost
ApiCallsOf(iBoost) ==
    LET IsOf(entry) == entry.iBoost = iBoost
        aOf == SelectSeq(aApiCalls, IsOf)
    IN  [i \in 1..Len(aOf) |-> aOf[i].call]

\* the calls a Boost call with these flags is to issue
ExpectedApis(flags) ==
    <<"GenerateTermUpdate">>
    \o (IF "BoostFlags_GradientSums" \in flags THEN <<"SetTermUpdate">> ELSE <<>>)
    \o <<"ApplyTermUpdate">>

C16_WitnessReturned ==
    /\ Len(aBoostCalls) = 1
    /\ aBoostCalls[1].bReturned
    /\ Len(aApiCalls) = 3
    /\ aApiCalls[2].call.api = "SetTermUpdate"
    /\ aApiCalls[3].call.api = "ApplyTermUpdate"
    /\ exitCode = <<>>

---------------------------------------------------------------------------
(* libebm_test.cpp: TestBoost::GetTermScores, GetTermScore, GetBestTermScore *)

\* largest bin index and largest class index a caller passes
MaxIndex == 2
MaxScoreIndex == 3

OutputType_BinaryClassification == 2

\* the loop of GetTermScores over the term's features, from dimension iDimension on
RECURSIVE GetTermScoresLoop(_, _, _, _, _)
GetTermScoresLoop(aBinCounts, indexes, iDimension, iVal, multiple) ==
    IF iDimension = Len(aBinCounts)
    THEN [bExit |-> FALSE, iVal |-> iVal]
    ELSE LET cBins == aBinCounts[iDimension + 1]
         IN  IF cBins <= indexes[iDimension + 1]
             THEN [bExit |-> TRUE, iVal |-> iVal]
             ELSE GetTermScoresLoop(aBinCounts, indexes, iDimension + 1,
                                    iVal + indexes[iDimension + 1] * multiple,
                                    multiple * cBins)

\* GetTermScores with a stride of one cell per bin, whatever the number of scores
GetTermScores_UnitStride(cClasses, aTermBins, iTerm, indexes) ==
    IF Len(aTermBins) <= iTerm
    THEN [bExit |-> TRUE, iVal |-> 0]
    ELSE IF Len(indexes) # Len(aTermBins[iTerm + 1])
    THEN [bExit |-> TRUE, iVal |-> 0]
    ELSE GetTermScoresLoop(aTermBins[iTerm + 1], indexes, 0, 0, 1)

\* GetTermScores: the offset in aTermScores of the scores of the cell at
\* indexes, or exit(1)
GetTermScores(cClasses, aTermBins, iTerm, indexes) ==
    IF Len(aTermBins) <= iTerm
    THEN [bExit |-> TRUE, iVal |-> 0]
    ELSE IF Len(indexes) # Len(aTermBins[iTerm + 1])
    THEN [bExit |-> TRUE, iVal |-> 0]
    ELSE GetTermScoresLoop(aTermBins[iTerm + 1], indexes, 0, 0, GetCountScores(cClasses))

\* GetTermScore returning the stored logit for the reference class and 0 for the other one
GetTermScore_SwappedReference(cClasses, iZeroClassificationLogit, aTermBins, iTerm, aTermScores, indexes, iClassOrZero) ==
    LET p == GetTermScores(cClasses, aTermBins, iTerm, indexes)
        aScores == [i \in 0..(Len(aTermScores) - p.iVal - 1) |-> aTermScores[p.iVal + i + 1]]
        exited == [bExit |-> TRUE, termScore |-> 0]
        returned(score) == [bExit |-> FALSE, termScore |-> score]
    IN  IF p.bExit THEN exited
        ELSE IF ~IsClassification(cClasses)
        THEN IF 0 # iClassOrZero THEN exited ELSE returned(aScores[0])
        ELSE IF cClasses <= iClassOrZero THEN exited
        ELSE IF OutputType_BinaryClassification = cClasses
        THEN IF iZeroClassificationLogit < 0
             THEN IF 0 = iClassOrZero THEN returned(aScores[0]) ELSE returned(0)
             ELSE IF iZeroClassificationLogit = iClassOrZero
                  THEN returned(aScores[0]) ELSE returned(0)
        ELSE IF iZeroClassificationLogit < 0
             THEN returned(aScores[iClassOrZero])
             ELSE returned(aScores[iClassOrZero] - aScores[iZeroClassificationLogit])

\* GetTermScore without EXPAND_BINARY_LOGITS: the score read for a class from
\* the cell at indexes, or exit(1)
GetTermScore(cClasses, iZeroClassificationLogit, aTermBins, iTerm, aTermScores, indexes, iClassOrZero) ==
    LET p == GetTermScores(cClasses, aTermBins, iTerm, indexes)
        aScores == [i \in 0..(Len(aTermScores) - p.iVal - 1) |-> aTermScores[p.iVal + i + 1]]
        exited == [bExit |-> TRUE, termScore |-> 0]
        returned(score) == [bExit |-> FALSE, termScore |-> score]
    IN  IF p.bExit THEN exited
        ELSE IF ~IsClassification(cClasses)
        THEN IF 0 # iClassOrZero THEN exited ELSE returned(aScores[0])
        ELSE IF cClasses <= iClassOrZero THEN exited
        ELSE IF OutputType_BinaryClassification = cClasses
        THEN IF iZeroClassificationLogit < 0
             THEN IF 0 = iClassOrZero THEN returned(0) ELSE returned(aScores[0])
             ELSE IF iZeroClassificationLogit = iClassOrZero
                  THEN returned(0) ELSE returned(aScores[0])
        ELSE IF iZeroClassificationLogit < 0
             THEN returned(aScores[iClassOrZero])
             ELSE returned(aScores[iClassOrZero] - aScores[iZeroClassificationLogit])

\* the best term scores the booster holds: for every term one score per
\* class and cell, all different from each other and from 0, with
\* differences that tell the pairs apart
StoredTermScores(cClasses, aTermBins, scale) ==
    [iTerm \in 1..Len(aTermBins) |->
        [i \in 1..(GetCountScores(cClasses) * ProdSeq(aTermBins[iTerm])) |-> scale * (2 ^ i)]]

\* a constructed TestBoost object: the constructor has exited unless the
\* reference class is -1 for regression and below cClasses for classification
InitTermScore ==
    /\ pc = "TestBoost"
    /\ m_cClasses \in {k_regression, 2, 3}
    /\ m_iZeroClassificationLogit \in -1..2
    /\ IF IsClassification(m_cClasses)
       THEN ~(m_cClasses <= m_iZeroClassificationLogit)
       ELSE -1 = m_iZeroClassificationLogit
    /\ m_termBins \in TermBinsChoices
    /\ \E scale \in {1, -3} :
          aBestTermScores = StoredTermScores(m_cClasses, m_termBins, scale)
    /\ aBoostCalls = <<>>
    /\ aApiCalls = <<>>
    /\ termScoreCall = <<>>
    /\ termScore = <<>>
    /\ exitCode = <<>>
    /\ MainIdle
    /\ TreeSweepIdle
    /\ LibraryIdle
    /\ LaterIdle

\* the index vectors a caller passes
IndexVectors == UNION { [1..cDimensions -> 0..MaxIndex] : cDimensions \in 1..2 }

\* one call of GetBestTermScore: the scores are copied out of the booster
\* into a local vector and read there
GetBestTermScore ==
    /\ pc = "TestBoost"
    /\ \E iTerm \in 0..Len(m_termBins), indexes \in IndexVectors, iScore \in 0..MaxScoreIndex,
          error \in {Error_None, Error_UnexpectedInternal} :
          /\ termScoreCall' = [iTerm |-> iTerm, indexes |-> indexes, iScore |-> iScore]
          /\ IF Len(m_termBins) <= iTerm \/ Error_None # error
             THEN /\ pc' = "exited"
                  /\ exitCode' = <<1>>
                  /\ UNCHANGED termScore
             ELSE LET termScores == aBestTermScores[iTerm + 1]
                      r == GetTermScore(m_cClasses, m_iZeroClassificationLogit, m_termBins,
                                        iTerm, termScores, indexes, iScore)
                  IN  IF r.bExit
                      THEN /\ pc' = "exited"
                           /\ exitCode' = <<1>>
                           /\ UNCHANGED termScore
                      ELSE /\ pc' = "returned"
                           /\ termScore' = <<r.termScore>>
                           /\ UNCHANGED exitCode
    /\ UNCHANGED <<m_cClasses, m_iZeroClassificationLogit, m_termBins, aBoostCalls,
                   aApiCalls, aBestTermScores>>
    /\ UNCHANGED <<pGradientAndHessian, kernelVars, initializerVars, treeSweepVars, mainVars,
                   laterVars>>

NextTermScore == GetBestTermScore

SpecTermScore == InitTermScore /\ [][NextTermScore]_vars

\* the stored logit of class iClass in the cell the call asked for: cells are
\* laid out with the first dimension fastest, the classes of a cell together
StoredLogit(iClass) ==
    LET aBinCounts == m_termBins[termScoreCall.iTerm + 1]
        indexes == termScoreCall.indexes
        iCell == indexes[1] + (IF Len(indexes) = 2 THEN aBinCounts[1] * indexes[2] ELSE 0)
    IN  aBestTermScores[termScoreCall.iTerm + 1][iCell * GetCountScores(m_cClasses) + iClass + 1]

\* GetBestTermScore has returned a score
TermScoreReturned == pc = "returned" /\ termScoreCall # <<>> /\ termScore # <<>>

\* C19: for binary classification a returned score is 0 for the reference
\* class, which is class 0 when m_iZeroClassificationLogit < 0 and class
\* m_iZeroClassificationLogit otherwise, and is the single stored logit of
\* the cell for the other class.
C19_BinarySingleLogit ==
    (TermScoreReturned /\ m_cClasses = 2) =>
        LET iReference == IF m_iZeroClassificationLogit < 0 THEN 0
                          ELSE m_iZeroClassificationLogit
        IN  /\ termScoreCall.iScore \in {0, 1}
            /\ termScoreCall.iScore = iReference => termScore = <<0>>
            /\ termScoreCall.iScore # iReference => termScore = <<StoredLogit(0)>>

\* binary classification with reference class 1: class 0 has read the stored
\* logit of cell (1, 2) of a 2 x 3 term
C19_Witness ==
    /\ TermScoreReturned
    /\ m_cClasses = 2
    /\ m_iZeroClassificationLogit = 1
    /\ termScoreCall = [iTerm |-> 0, indexes |-> <<1, 2>>, iScore |-> 0]
    /\ termScore = <<64>>

\* binary classification without a reference class: class 0 has read 0
C19_WitnessReference ==
    /\ TermScoreReturned
    /\ m_cClasses = 2
    /\ m_iZeroClassificationLogit = -1
    /\ termScoreCall.iScore = 0
    /\ termScore = <<0>>

\* C20: for multiclass a returned score is the stored logit of the requested
\* class when m_iZeroClassificationLogit < 0, and that logit minus the stored
\* logit of class m_iZeroClassificationLogit otherwise, so that the reference
\* class reads 0; no step changes the stored term scores.
C20_MulticlassReadTimeSubtraction ==
    /\ [](TermScoreReturned /\ m_cClasses > 2 =>
            /\ m_iZeroClassificationLogit < 0 =>
                  termScore = <<StoredLogit(termScoreCall.iScore)>>
            /\ m_iZeroClassificationLogit >= 0 =>
                  /\ termScore = <<StoredLogit(termScoreCall.iScore)
                                    - StoredLogit(m_iZeroClassificationLogit)>>
                  /\ termScoreCall.iScore = m_iZeroClassificationLogit => termScore = <<0>>)
    /\ [][aBestTermScores' = aBestTermScores]_vars

\* three classes with reference class 1: class 2 of cell (1, 2) of a 2 x 3
\* term has read its stored logit 2^18 minus the reference's 2^17
C20_Witness ==
    /\ TermScoreReturned
    /\ m_cClasses = 3
    /\ m_iZeroClassificationLogit = 1
    /\ termScoreCall = [iTerm |-> 0, indexes |-> <<1, 2>>, iScore |-> 2]
    /\ termScore = <<2 ^ 18 - 2 ^ 17>>
    /\ aBestTermScores[1][18] = 2 ^ 18

\* three classes without a reference class: the stored logit comes back unchanged
C20_WitnessUnchanged ==
    /\ TermScoreReturned
    /\ m_cClasses = 3
    /\ m_iZeroClassificationLogit = -1
    /\ termScoreCall = [iTerm |-> 0, indexes |-> <<1, 0>>, iScore |-> 1]
    /\ termScore = <<-3 * 2 ^ 5>>

---------------------------------------------------------------------------
(* The weight cursor of the interaction initializer *)

\* C25: with weights, every iteration of the interaction initializer
\* multiplies the consumed sample's gradient by the weight stored at the
\* position of the first gradient slot the sample is written to, also when the
\* sample before it was written across a subset boundary.
C25_WeightOfFirstSlot ==
    [][(pc = "RmseInteractionLoop" /\ pc' \in {pc, "returned"}
            /\ aSubsetWeights[pSubset + 1] # nullptr) =>
          IterationWrote(ConsumedGradient
                         * aSubsetWeights[pSubset + 1][pGradientAndHessian + 1])]_vars

---------------------------------------------------------------------------
(* The assertions of the dispatch ladders *)

\* C24: for every classification class count K >= 2, also K greater than
\* k_cCompilerClassesMax, every assertion on the way from BinSumsInteraction
\* through the two ladders to the kernel holds: no build stops the call there,
\* and for K > k_cCompilerClassesMax the k_dynamicClassification kernel is
\* entered.
C24_LadderAssertionsHold ==
    (IsClassification(cRuntimeClasses) /\ cRuntimeClasses >= 2) =>
        /\ BinSumsInteractionRoute(cRuntimeClasses, Len(pTerm)).bAssertOk
        /\ pc # "aborted"
        /\ (pc = "kernel" /\ cRuntimeClasses > k_cCompilerClassesMax) =>
              cCompilerClasses = k_dynamicClassification

---------------------------------------------------------------------------
(* The cursors of the BinSumsInteraction sample loop *)

\* the number of gradient-buffer entries of one sample
EntriesPerSample ==
    (IF IsClassification(cRuntimeClasses) THEN 2 ELSE 1) * GetCountScores(cRuntimeClasses)

\* C28: the sample loop runs exactly cSamples iterations: iteration i visits
\* sample i (only that sample's bin changes, its count by one), moves the
\* gradient cursor by (2 if classification else 1) * cScores entries and, with
\* weights, the weight cursor by one; the gradient cursor never passes the
\* buffer end and the loop ends exactly when it stands on it.
C28_SampleLoopCursors ==
    /\ [](pc \in {"kernel", "done"} =>
            /\ iSample <= pDataSet.cSamples
            /\ pGradientAndHessian = iSample * EntriesPerSample
            /\ pGradientAndHessian <= pDataSet.cSamples * EntriesPerSample
            /\ pGradientAndHessian <= Len(pDataSet.aGradientsAndHessians)
            /\ pDataSet.aWeights # nullptr => pWeight = iSample
            /\ TensorCount(aBins) = iSample
            /\ pc = "done" =>
                  /\ iSample = pDataSet.cSamples
                  /\ pGradientAndHessian = Len(pDataSet.aGradientsAndHessians))
    /\ [][pc = "kernel" =>
            IF iSample < pDataSet.cSamples
            THEN /\ pc' = "kernel"
                 /\ iSample' = iSample + 1
                 /\ LET iVisited == FlatIndex(pTerm, SampleBins(pTerm, pDataSet, iSample + 1))
                    IN  \A iBin \in DOMAIN aBins :
                          IF iBin = iVisited
                          THEN aBins'[iBin].m_cSamples = aBins[iBin].m_cSamples + 1
                          ELSE aBins'[iBin] = aBins[iBin]
            ELSE pc' = "done" /\ iSample' = iSample /\ aBins' = aBins]_vars

\* the loop has ended over two weighted samples of three classes: twelve
\* buffer entries and two weights consumed
C28_Witness ==
    /\ pc = "done"
    /\ cRuntimeClasses = 3
    /\ pDataSet.cSamples = 2
    /\ pDataSet.aWeights # nullptr
    /\ iSample = 2
    /\ pGradientAndHessian = 12
    /\ pWeight = 2

---------------------------------------------------------------------------
(* The order in which main runs the test cases *)

\* C29: once main has sorted its copy, the test cases stand in nondecreasing
\* m_testPriority order with those of equal priority in registration order,
\* and they are run in that order: whenever a test case has run, every test
\* case before it has run, and the loop is at the first one that has not.
C29_PriorityOrder ==
    pc \in {"main loop", "main returned", "exited"} =>
        LET iTests == 1..Len(g_allTestsHidden)
        IN  /\ \A i \in iTests : \A j \in iTests :
                  i < j =>
                    /\ g_allTestsHidden[i].m_testPriority <= g_allTestsHidden[j].m_testPriority
                    /\ g_allTestsHidden[i].m_testPriority = g_allTestsHidden[j].m_testPriority =>
                          g_allTestsHidden[i].m_description < g_allTestsHidden[j].m_description
                    /\ g_allTestsHidden[j].cRuns > 0 => g_allTestsHidden[i].cRuns > 0
            /\ pc # "exited" =>
                  \A i \in iTests : g_allTestsHidden[i].cRuns > 0 <=> i <= iTestCase

\* of three test cases registered with priorities 1, 0, 1 the second and the
\* first registered have run, in that order, and the third is next
C29_Witness ==
    /\ pc = "main loop"
    /\ iTestCase = 2
    /\ Len(g_allTestsHidden) = 3
    /\ g_allTestsHidden[1].m_description = 2
    /\ g_allTestsHidden[1].m_testPriority = 0
    /\ g_allTestsHidden[2].m_description = 1
    /\ g_allTestsHidden[3].m_description = 3
    /\ g_allTestsHidden[2].cRuns = 1
    /\ g_allTestsHidden[3].cRuns = 0

---------------------------------------------------------------------------
(* The read cursors of the two initializers *)

\* the bag entries passed over or consumed by the iteration of this step
EntriesOfIteration == (pTargetData + 1)..pTargetData'

\* C26: with a bag, an iteration of either initializer that consumes the
\* sample at bag index s reads target[s] and, with init scores, aInitScores[m]
\* where m is the number of nonzero bag entries at indices below s: on the way
\* to s the zero entries move the target cursor only, the nonzero entries that
\* the pass skips move both cursors.
C26_TargetAndInitScoreCursors ==
    [][(InitializerIterationStep /\ aBag # nullptr) =>
          LET cNonzeroBelow == CountNonzero(aBag, ConsumedSample - 1)
              cNonzeroPassed ==
                  Cardinality({t \in EntriesOfIteration : aBag[t] # 0})
              initScore == IF aInitScores = nullptr THEN 0
                           ELSE aInitScores[cNonzeroBelow + 1]
          IN  /\ pSampleReplication' = pTargetData'
              /\ aBag[ConsumedSample] # 0
              /\ aInitScores # nullptr =>
                    /\ pInitScore' - 1 = cNonzeroBelow
                    /\ pInitScore' - pInitScore = cNonzeroPassed
              /\ aSubsetWeights[pSubset + 1] = nullptr =>
                    IterationWrote(initScore - aTargets[ConsumedSample])]_vars

\* an initializer has passed a zero and a skipped nonzero entry and consumed
\* the sample at index 2 with the second init score
C26_Witness ==
    /\ pc = "returned"
    /\ direction = 1
    /\ aBag = <<0, -1, 1>>
    /\ aInitScores = <<10, 20>>
    /\ aSubsetWeights = <<nullptr>>
    /\ pTargetData = 3
    /\ pInitScore = 2
    /\ aSubsets = <<<<13>>>>

\* C27: when the accepted multiplicities add up to the number of gradient
\* slots, the boosting initializer reads no bag or target entry at an index
\* >= n and no init score beyond the last one, in either direction and
\* whatever follows the last accepted entry in the bag, and it has returned
\* exactly when the last slot is written.
C27_BoostingReadsInBounds ==
    (SlotsMatchAccepted /\ pc \in {"RmseBoostingLoop", "returned", "undefined"}) =>
        /\ pc # "undefined"
        /\ aBag # nullptr => pSampleReplication <= Len(aBag)
        /\ pTargetData <= Len(aTargets)
        /\ aInitScores # nullptr => pInitScore <= Len(aInitScores)
        /\ pc = "returned" <=> TotalWrites(aWrites) = Len(Flatten(aSubsets))

\* the training pass has returned after the first entry of a bag that goes on
\* with a validation entry and a zero, neither of which it has read
C27_Witness ==
    /\ pc = "returned"
    /\ direction = 1
    /\ aBag = <<2, -1, 0>>
    /\ aInitScores # nullptr
    /\ pSampleReplication = 1
    /\ pTargetData = 1
    /\ pInitScore = 1
    /\ TotalWrites(aWrites) = 2

\* the validation pass has returned at the last entry of a bag
C27_WitnessValidation ==
    /\ pc = "returned"
    /\ direction = -1
    /\ aBag = <<1, 0, -2>>
    /\ pSampleReplication = 3
    /\ pTargetData = 3

---------------------------------------------------------------------------
(* libebm_test.cpp: IsApproxEqual.  A double is a record: kind "nan", "inf"  *)
(* (v its sign) or "finite" (v an integer); a percentage is a count of       *)
(* quarters, and x * (1 - percentage) <= y is compared after multiplying     *)
(* both sides by 4.                                                          *)

\* largest magnitude of a compared value
MaxValue == 3
\* largest percentage, in quarters
MaxPercentageQuarters == 5
\* largest number of comparisons a test makes
MaxApproxCalls == 2

\* the percentages are counts of 1 / PercentageScale
PercentageScale == 4

Finite(v) == [kind |-> "finite", v |-> v]

\* the doubles compared
Doubles ==
    {[kind |-> "nan", v |-> 0], [kind |-> "inf", v |-> 1], [kind |-> "inf", v |-> -1]}
        \cup {Finite(v) : v \in (-MaxValue)..MaxValue}

\* the comparison that always measures the tolerance from expected
IsApproxEqual_FromExpected(val, expected, percentage) ==
    LET smaller == PercentageScale - percentage
        bigger == PercentageScale + percentage
        x == val.v
        e == expected.v
    IN  IF val.kind = "nan" \/ expected.kind = "nan" THEN FALSE
        ELSE IF val.kind = "inf" \/ expected.kind = "inf" THEN FALSE
        ELSE IF 0 < x
        THEN 0 < e /\ e * smaller <= x * PercentageScale /\ x * PercentageScale <= e * bigger
        ELSE IF x < 0
        THEN e < 0 /\ e * bigger <= x * PercentageScale /\ x * PercentageScale <= e * smaller
        ELSE 0 = e

\* IsApproxEqual: the value of isEqual at its end
IsApproxEqual(val, expected, percentage) ==
    LET smaller == PercentageScale - percentage
        bigger == PercentageScale + percentage
        x == val.v
        e == expected.v
    IN  IF val.kind = "nan" THEN FALSE
        ELSE IF expected.kind = "nan" THEN FALSE
        ELSE IF val.kind = "inf" THEN FALSE
        ELSE IF expected.kind = "inf" THEN FALSE
        ELSE IF 0 < x
        THEN IF 0 < e
             THEN IF x <= e
                  THEN e * smaller <= x * PercentageScale /\ x * PercentageScale <= e * bigger
                  ELSE x * smaller <= e * PercentageScale /\ e * PercentageScale <= x * bigger
             ELSE FALSE
        ELSE IF x < 0
        THEN IF e < 0
             THEN IF e <= x
                  THEN e * bigger <= x * PercentageScale /\ x * PercentageScale <= e * smaller
                  ELSE x * bigger <= e * PercentageScale /\ e * PercentageScale <= x * smaller
             ELSE FALSE
        ELSE 0 = e

\* a test about to compare two values, in either order, within a percentage
InitApproxEqual ==
    /\ pc = "test"
    /\ approxArgs \in [a : Doubles, b : Doubles, percentage : 0..MaxPercentageQuarters]
    /\ aApproxCalls = <<>>
    /\ g_countEqualityFailures = 0
    /\ WorkersIdle
    /\ StrengthIdle
    /\ exitCode = <<>>
    /\ MainIdle
    /\ TreeSweepIdle
    /\ TestBoostIdle
    /\ pGradientAndHessian = 0
    /\ KernelIdle
    /\ InitializerIdle

\* one call of IsApproxEqual, with the counter incremented when it fails
CallIsApproxEqual ==
    /\ pc = "test"
    /\ Len(aApproxCalls) < MaxApproxCalls
    /\ \E bSwap \in BOOLEAN :
          LET val == IF bSwap THEN approxArgs.b ELSE approxArgs.a
              expected == IF bSwap THEN approxArgs.a ELSE approxArgs.b
              isEqual == IsApproxEqual(val, expected, approxArgs.percentage)
          IN  /\ aApproxCalls' = Append(aApproxCalls,
                      [val |-> val, expected |-> expected,
                       percentage |-> approxArgs.percentage, isEqual |-> isEqual])
              /\ g_countEqualityFailures' =
                    IF ~isEqual THEN g_countEqualityFailures + 1 ELSE g_countEqualityFailures
    /\ UNCHANGED <<pc, approxArgs, exitCode>>
    /\ UNCHANGED <<pGradientAndHessian, kernelVars, initializerVars, treeSweepVars, mainVars,
                   testBoostVars, workerVars, strengthVars>>

NextApproxEqual == CallIsApproxEqual

SpecApproxEqual == InitApproxEqual /\ [][NextApproxEqual]_vars

\* the sign class of a finite value
SignClass(v) == IF v > 0 THEN 1 ELSE IF v < 0 THEN -1 ELSE 0

\* C30: two calls with the compared values exchanged and the same percentage
\* return the same; a call returns true only for two finite values of the same
\* sign class; the counter of failures is the number of calls that returned
\* false.
C30_ApproxEqualSymmetric ==
    LET iCalls == 1..Len(aApproxCalls)
    IN  /\ \A i \in iCalls : \A j \in iCalls :
              (/\ aApproxCalls[i].val = aApproxCalls[j].expected
               /\ aApproxCalls[i].expected = aApproxCalls[j].val
               /\ aApproxCalls[i].percentage = aApproxCalls[j].percentage) =>
                  aApproxCalls[i].isEqual = aApproxCalls[j].isEqual
        /\ \A i \in iCalls :
              aApproxCalls[i].isEqual =>
                  /\ aApproxCalls[i].val.kind = "finite"
                  /\ aApproxCalls[i].expected.kind = "finite"
                  /\ SignClass(aApproxCalls[i].val.v) = SignClass(aApproxCalls[i].expected.v)
        /\ g_countEqualityFailures =
              Cardinality({i \in iCalls : ~aApproxCalls[i].isEqual})

\* 1 against 2 within 50 percent, then 2 against 1: both equal, no failure counted
C30_Witness ==
    /\ Len(aApproxCalls) = 2
    /\ aApproxCalls[1].val = Finite(1)
    /\ aApproxCalls[1].expected = Finite(2)
    /\ aApproxCalls[2].val = Finite(2)
    /\ aApproxCalls[2].expected = Finite(1)
    /\ aApproxCalls[1].percentage = 2
    /\ aApproxCalls[1].isEqual
    /\ aApproxCalls[2].isEqual
    /\ g_countEqualityFailures = 0

\* -2 against positive infinity, then the reverse: two failures counted
C30_WitnessFailures ==
    /\ Len(aApproxCalls) = 2
    /\ aApproxCalls[1].val = Finite(-2)
    /\ aApproxCalls[1].expected = [kind |-> "inf", v |-> 1]
    /\ aApproxCalls[2].val = [kind |-> "inf", v |-> 1]
    /\ g_countEqualityFailures = 2

---------------------------------------------------------------------------
(* The interaction pipeline: InitializeRmseGradientsAndHessiansInteraction   *)
(* fills the subsets, then BinSumsInteraction aggregates one of them         *)

\* the term the pipeline bins by: one feature of two bins
PipelineTerm == <<2>>

\* the feature columns of a subset of cSamples samples: every sample in bin 0,
\* or the samples in bins 1 and 0 in turn
PipelineColumns(cSamples) ==
    { << [s \in 1..cSamples |-> 0] >>, << [s \in 1..cSamples |-> s % 2] >> }

\* the pipeline starts as the interaction initializer does, with weights
InitPipeline ==
    /\ InitInteraction
    /\ \A iSubset \in 1..Len(aSubsetWeights) : aSubsetWeights[iSubset] # nullptr

\* between the two calls: a subset the initializer filled becomes the dataset
\* of BinSumsInteraction, with the subset's gradient buffer and weights, and the
\* tensor is zeroed
PipelineHandOff ==
    /\ pc = "returned"
    /\ pTerm = <<>>
    /\ pc' = "BinSumsInteraction"
    /\ \E iSubset \in 1..Len(aSubsets) :
          \E aInputData \in PipelineColumns(Len(aSubsets[iSubset])) :
              pDataSet' = [cSamples |-> Len(aSubsets[iSubset]),
                           aInputData |-> aInputData,
                           aWeights |-> aSubsetWeights[iSubset],
                           aGradientsAndHessians |-> aSubsets[iSubset]]
    /\ pTerm' = PipelineTerm
    /\ cRuntimeClasses' = k_regression
    /\ aBins' = ZeroTensor(ProdSeq(PipelineTerm), FALSE, GetCountScores(k_regression))
    /\ iSample' = 0
    /\ pGradientAndHessian' = 0
    /\ pWeight' = 0
    /\ UNCHANGED <<aInvoked, cCompilerClasses, cCompilerDimensions, NDEBUG>>
    /\ UNCHANGED <<initializerVars, otherVars>>

NextPipeline == NextInteraction \/ PipelineHandOff \/ Next

SpecPipeline == InitPipeline /\ [][NextPipeline]_vars

\* the subsets the dataset of the BinSumsInteraction call can be
PipelineSubsets ==
    { iSubset \in 1..Len(aSubsets) :
        /\ pDataSet.aGradientsAndHessians = aSubsets[iSubset]
        /\ pDataSet.aWeights = aSubsetWeights[iSubset] }

\* the shared dataset's sample that slot iSlot of subset iSubset belongs to
PipelineOwner(iSubset, iSlot) ==
    SlotOwners(aBag, Len(aTargets), 1, 1)[SlotsBefore(aSubsets, iSubset) + iSlot]

\* C23: in the interaction pipeline with weights, after the initializer and
\* then BinSumsInteraction on a zeroed tensor, every bin's sumGradients is the
\* sum over the bin's samples of w_s * (initScore_s - target_s): the weight is
\* applied exactly once.
C23_WeightAppliedOnce ==
    (pc = "done" /\ aSubsets # <<>>) =>
        \A iSubset \in PipelineSubsets :
            \A iTensorBin \in DOMAIN aBins :
                LET S == SamplesOfBin(pTerm, pDataSet, iTensorBin)
                    G == [iSlot \in S |->
                            LET s == PipelineOwner(iSubset, iSlot)
                            IN  SharedWeight(s)
                                    * (InitScoreOf(aInitScores, aBag, s) - aTargets[s])]
                IN  aBins[iTensorBin].m_aGradientPairs[1].m_sumGradients = SumOver(S, G)

\* one sample of weight 2 and target 3 without init score: the initializer
\* stored 2 * (0 - 3), and the aggregation has finished
C23_WitnessOneSample ==
    /\ pc = "done"
    /\ aBag = nullptr
    /\ aInitScores = nullptr
    /\ aTargets = <<3>>
    /\ aSubsets = << <<-6>> >>
    /\ pDataSet.aWeights = <<2>>
    /\ pDataSet.aInputData = << <<0>> >>

---------------------------------------------------------------------------
(* One BinSums aggregation partitioned across worker threads: every worker   *)
(* runs the kernel over its own slice of the samples into its own zeroed     *)
(* tensor, and a reducer adds the workers' tensors into the result           *)

MaxWorkerSamples == 3
MaxWorkers == 2

\* samples lo+1 .. hi of a dataset, as the dataset of one worker
SliceDataSet(ds, cClasses, lo, hi) ==
    LET cPerSample == GradientStride(IsClassification(cClasses)) * GetCountScores(cClasses)
    IN  [cSamples |-> hi - lo,
         aInputData |-> [iDimension \in 1..Len(ds.aInputData) |->
                            SubSeq(ds.aInputData[iDimension], lo + 1, hi)],
         aWeights |-> IF ds.aWeights = nullptr THEN nullptr
                      ELSE SubSeq(ds.aWeights, lo + 1, hi),
         aGradientsAndHessians |->
            SubSeq(ds.aGradientsAndHessians, lo * cPerSample + 1, hi * cPerSample)]

\* the ways to cut cSamples samples into cWorkers consecutive ranges, some
\* possibly empty: the nondecreasing sequences of cWorkers + 1 cut points from
\* 0 to cSamples
Partitions(cSamples, cWorkers) ==
    { aCuts \in [1..(cWorkers + 1) -> 0..cSamples] :
        /\ aCuts[1] = 0
        /\ aCuts[cWorkers + 1] = cSamples
        /\ \A i \in 1..cWorkers : aCuts[i] <= aCuts[i + 1] }

\* the sum of two tensors of one shape, bin by bin and score by score
TensorSum(a, b) ==
    [iBin \in DOMAIN a |->
        [m_cSamples |-> a[iBin].m_cSamples + b[iBin].m_cSamples,
         m_weight |-> a[iBin].m_weight + b[iBin].m_weight,
         m_aGradientPairs |->
            [iScore \in DOMAIN a[iBin].m_aGradientPairs |->
                [field \in DOMAIN a[iBin].m_aGradientPairs[iScore] |->
                    a[iBin].m_aGradientPairs[iScore][field]
                        + b[iBin].m_aGradientPairs[iScore][field]]]]]

\* the call's zeroed tensor
WorkerZeroTensor ==
    ZeroTensor(ProdSeq(pTerm), IsClassification(cRuntimeClasses),
               GetCountScores(cRuntimeClasses))

\* the aggregation is set up: the dataset, its partition, every worker at the
\* entry of the kernel with its own zeroed tensor, the result zeroed
InitWorkers ==
    /\ pc = "workers"
    /\ cRuntimeClasses \in {k_regression, 2}
    /\ pTerm \in TermsOf(1)
    /\ pDataSet \in DataSetsOf(pTerm, MaxWorkerSamples, cRuntimeClasses)
    /\ aInvoked = <<>>
    /\ cCompilerClasses = BinSumsInteractionRoute(cRuntimeClasses, Len(pTerm)).cCompilerClasses
    /\ cCompilerDimensions =
          BinSumsInteractionRoute(cRuntimeClasses, Len(pTerm)).cCompilerDimensions
    /\ iSample = 0
    /\ pGradientAndHessian = 0
    /\ pWeight = 0
    /\ aBins = WorkerZeroTensor
    /\ NDEBUG = TRUE
    /\ \E cWorkers \in 1..MaxWorkers :
          \E aCuts \in Partitions(MaxWorkerSamples, cWorkers) :
              aWorkers = [w \in 1..cWorkers |->
                            [pc |-> "kernel",
                             ds |-> SliceDataSet(pDataSet, cRuntimeClasses,
                                                 aCuts[w], aCuts[w + 1]),
                             k |-> KernelEntry(WorkerZeroTensor)]]
    /\ aReduced = WorkerZeroTensor
    /\ InitializerIdle
    /\ TreeSweepIdle /\ MainIdle /\ exitCode = <<>> /\ TestBoostIdle
    /\ ApproxIdle /\ StrengthIdle

\* what no worker and no reducer step changes
workerFrame == <<pc, pGradientAndHessian, kernelVars, initializerVars, treeSweepVars,
                 mainVars, exitCode, testBoostVars, approxVars, strengthVars>>

\* one iteration of worker w's sample loop, on its own slice and tensor
WorkerSample(w) ==
    /\ pc = "workers"
    /\ aWorkers[w].pc = "kernel"
    /\ KernelLoopCondition(aWorkers[w].k, cCompilerClasses, cRuntimeClasses, aWorkers[w].ds)
    /\ aWorkers' = [aWorkers EXCEPT ![w].k =
                       KernelIteration(@, cCompilerClasses, cCompilerDimensions,
                                       cRuntimeClasses, pTerm, aWorkers[w].ds)]
    /\ UNCHANGED <<aReduced, workerFrame>>

\* worker w's loop ends
WorkerExit(w) ==
    /\ pc = "workers"
    /\ aWorkers[w].pc = "kernel"
    /\ ~KernelLoopCondition(aWorkers[w].k, cCompilerClasses, cRuntimeClasses, aWorkers[w].ds)
    /\ aWorkers' = [aWorkers EXCEPT ![w].pc = "done"]
    /\ UNCHANGED <<aReduced, workerFrame>>

\* the reducer adds the tensor of a worker that has finished into the result
Reduce(w) ==
    /\ pc = "workers"
    /\ aWorkers[w].pc = "done"
    /\ aReduced' = TensorSum(aReduced, aWorkers[w].k.aBins)
    /\ aWorkers' = [aWorkers EXCEPT ![w].pc = "reduced"]
    /\ UNCHANGED workerFrame

WorkerSteps == \E w \in DOMAIN aWorkers : WorkerSample(w) \/ WorkerExit(w)

ReducerSteps == \E w \in DOMAIN aWorkers : Reduce(w)

NextWorkers == WorkerSteps \/ ReducerSteps

SpecWorkers == InitWorkers /\ [][NextWorkers]_vars

\* every worker's tensor has been added into the result
AllReduced ==
    /\ pc = "workers"
    /\ \A w \in DOMAIN aWorkers : aWorkers[w].pc = "reduced"

\* the tensor of a single pass of the kernel over all samples
SinglePass ==
    KernelRun(KernelEntry(WorkerZeroTensor), cCompilerClasses, cCompilerDimensions,
              cRuntimeClasses, pTerm, pDataSet).aBins

\* C22: with the sample range partitioned across workers that each accumulate
\* into a private zeroed tensor, the sum of the workers' tensors, added in any
\* order, has in every bin the count and the per-score sums of a single pass
\* over all samples.
C22_PartitionedEqualsSinglePass ==
    AllReduced =>
        \A iTensorBin \in DOMAIN aReduced :
            /\ aReduced[iTensorBin].m_cSamples = SinglePass[iTensorBin].m_cSamples
            /\ aReduced[iTensorBin].m_aGradientPairs
                  = SinglePass[iTensorBin].m_aGradientPairs

\* C22 (premise): a step of one worker leaves every other worker's slice and
\* tensor, the result and the gradient buffer as they were.
C22_WorkersPrivate ==
    [][\A w \in DOMAIN aWorkers :
          (aWorkers[w].pc = "kernel" /\ aWorkers'[w] # aWorkers[w]) =>
              /\ \A v \in DOMAIN aWorkers \ {w} : aWorkers'[v] = aWorkers[v]
              /\ aReduced' = aReduced
              /\ pDataSet' = pDataSet]_vars

\* two workers with samples each, both hitting one bin, reduced second first
C22_Witness ==
    /\ AllReduced
    /\ Len(aWorkers) = 2
    /\ aWorkers[1].ds.cSamples = 2
    /\ aWorkers[2].ds.cSamples = 1
    /\ pDataSet.aWeights # nullptr
    /\ \E iTensorBin \in DOMAIN aReduced :
          /\ aReduced[iTensorBin].m_cSamples = 3
          /\ aWorkers[1].k.aBins[iTensorBin].m_cSamples = 2
          /\ aWorkers[2].k.aBins[iTensorBin].m_cSamples = 1

---------------------------------------------------------------------------
(* TestInteraction::TestCalcInteractionStrength and the interaction scorer   *)
(* it calls.  The scorer works on exact rationals [num, den], den > 0.       *)
(* Every feature has two bins, so each dimension has one place to split and  *)
(* the best joint split is the split of every dimension.                     *)

MaxEffect == 2

\* the weights of a feature's bins in the datasets with independent features
MarginalWeights == {1, 2}

RECURSIVE Gcd(_, _)
Gcd(a, b) == IF b = 0 THEN a ELSE Gcd(b, a % b)

Lcm(a, b) == (a \div Gcd(a, b)) * b

RECURSIVE LcmOver(_)
LcmOver(S) ==
    IF S = {} THEN 1 ELSE LET x == CHOOSE y \in S : TRUE IN Lcm(x, LcmOver(S \ {x}))

\* the difference returned as it is
ClampAtZero_None(x) == x

\* step 3 of the scorer: the difference clamped at zero
ClampAtZero(x) == IF x < 0 THEN 0 ELSE x

\* the tensor of a term aggregated from the tensor over all features: every
\* cell of the term sums the cells that agree with it on the term's features
ProjectTensor(detector, features) ==
    LET term == [i \in 1..Len(features) |-> detector.term[features[i] + 1]]
        Cells(t) == { u \in DOMAIN detector.cells :
                        \A i \in 1..Len(features) : u[features[i] + 1] = t[i] }
    IN  [term |-> term,
         cells |-> [t \in AllBinTuples(term) |->
                      [w |-> SumOver(Cells(t), [u \in Cells(t) |-> detector.cells[u].w]),
                       g |-> SumOver(Cells(t), [u \in Cells(t) |-> detector.cells[u].g])]]]

\* the weight and the gradient sum of a group of cells
GroupWeight(tensor, T) == SumOver(T, [t \in T |-> tensor.cells[t].w])
GroupGradient(tensor, T) == SumOver(T, [t \in T |-> tensor.cells[t].g])

\* the groups the joint split, the split of dimension d alone and no split
\* leave the cells in
JointGroups(tensor) == { {t} : t \in DOMAIN tensor.cells }
MarginalGroups(tensor, d) ==
    { { t \in DOMAIN tensor.cells : t[d] = iBin } : iBin \in 0..(tensor.term[d] - 1) }
ParentGroups(tensor) == { DOMAIN tensor.cells }

\* the common denominator of the gains: a multiple of every group's weight
GainDenominator(tensor) ==
    LcmOver({ GroupWeight(tensor, T) :
                T \in { U \in JointGroups(tensor) \cup ParentGroups(tensor)
                              \cup UNION { MarginalGroups(tensor, d) :
                                            d \in 1..Len(tensor.term) } :
                          GroupWeight(tensor, U) > 0 } })

\* the gain formula, sumGradient^2 / weight summed over the groups that hold
\* weight, times den
ScaledGain(tensor, groups, den) ==
    LET held == { T \in groups : GroupWeight(tensor, T) > 0 }
    IN  SumOver(held, [T \in held |->
            GroupGradient(tensor, T) * GroupGradient(tensor, T)
                * (den \div GroupWeight(tensor, T))])

\* the scorer on the aggregated tensor of a term: the gain of the joint split
\* over no split, less the gains of the one-dimensional splits over no split,
\* clamped at zero and averaged over the weight
InteractionStrength(tensor) ==
    LET den == GainDenominator(tensor)
        total == GroupWeight(tensor, DOMAIN tensor.cells)
        parent == ScaledGain(tensor, ParentGroups(tensor), den)
        joint == ScaledGain(tensor, JointGroups(tensor), den) - parent
        marginal == SumOver(1..Len(tensor.term),
                            [d \in 1..Len(tensor.term) |->
                                ScaledGain(tensor, MarginalGroups(tensor, d), den) - parent])
    IN  IF total = 0
        THEN [num |-> 0, den |-> 1]
        ELSE [num |-> ClampAtZero(joint - marginal), den |-> den * total]

\* CalcInteractionStrength: an error for a feature index the dataset does not
\* have, else the strength of the term's tensor
CalcInteractionStrength(detector, features) ==
    IF \E i \in 1..Len(features) : features[i] \notin 0..(Len(detector.term) - 1)
    THEN [error |-> "Error_IllegalParamVal", avgInteractionStrength |-> <<>>]
    ELSE [error |-> "Error_None",
          avgInteractionStrength |->
              InteractionStrength(ProjectTensor(detector, features))]

\* the dataset of a detector whose features are independent and whose target is
\* additive: the weight of a cell is the product of its bins' weights, its
\* target the sum of its bins' effects, its gradient sum weight * (0 - target)
AdditiveDetector(term, aBinWeights, aEffects) ==
    [term |-> term,
     cells |-> [t \in AllBinTuples(term) |->
                  LET w == ProdSeq([d \in 1..Len(term) |-> aBinWeights[d][t[d] + 1]])
                      y == SumSeq([d \in 1..Len(term) |-> aEffects[d][t[d] + 1]])
                  IN  [w |-> w, g |-> w * (0 - y)]]]

\* two features with any bin weights and effects, three features with equal
\* bin weights and any effects
AdditiveDetectors ==
    { AdditiveDetector(<<2, 2>>, aBinWeights, aEffects) :
        aBinWeights \in [1..2 -> [1..2 -> MarginalWeights]],
        aEffects \in [1..2 -> [1..2 -> 0..MaxEffect]] }
    \cup
    { AdditiveDetector(<<2, 2, 2>>, [d \in 1..3 |-> <<1, 1>>], aEffects) :
        aEffects \in [1..3 -> [1..2 -> 0..MaxEffect]] }

\* two features with any cells: empty, or one sample of weight 1
AnyDetectors ==
    { [term |-> <<2, 2>>, cells |-> cells] :
        cells \in [AllBinTuples(<<2, 2>>) ->
                     {[w |-> 0, g |-> 0]} \cup { [w |-> 1, g |-> 0 - y] : y \in 0..MaxEffect }] }

\* the terms asked about: all features, the first and the last one, and a
\* feature the dataset does not have
FeatureVectors(detector) ==
    LET cFeatures == Len(detector.term)
    IN  { [i \in 1..cFeatures |-> i - 1], <<0, cFeatures - 1>>, <<0, cFeatures>> }

\* before a call of TestCalcInteractionStrength
InitStrength ==
    /\ pc = "TestCalcInteractionStrength"
    /\ \E detector \in AdditiveDetectors \cup AnyDetectors :
          \E features \in FeatureVectors(detector) :
              strengthTensor = [detector |-> detector, features |-> features]
    /\ avgInteractionStrength = <<>>
    /\ exitCode = <<>>
    /\ pGradientAndHessian = 0
    /\ KernelIdle
    /\ InitializerIdle
    /\ TreeSweepIdle /\ MainIdle /\ TestBoostIdle
    /\ ApproxIdle /\ WorkersIdle

\* TestInteraction::TestCalcInteractionStrength: exit(1) on an error, else the
\* value CalcInteractionStrength stored
TestCalcInteractionStrength ==
    /\ pc = "TestCalcInteractionStrength"
    /\ LET result == CalcInteractionStrength(strengthTensor.detector, strengthTensor.features)
       IN  IF result.error # "Error_None"
           THEN /\ pc' = "exited"
                /\ exitCode' = <<1>>
                /\ UNCHANGED avgInteractionStrength
           ELSE /\ pc' = "returned"
                /\ avgInteractionStrength' = result.avgInteractionStrength
                /\ UNCHANGED exitCode
    /\ UNCHANGED strengthTensor
    /\ UNCHANGED <<pGradientAndHessian, kernelVars, initializerVars, treeSweepVars,
                   mainVars, testBoostVars, approxVars, workerVars>>

NextStrength == TestCalcInteractionStrength

SpecStrength == InitStrength /\ [][NextStrength]_vars

\* TestCalcInteractionStrength has returned a strength
StrengthReturned == strengthTensor # <<>> /\ pc = "returned"

C21_WitnessClamped ==
    /\ StrengthReturned
    /\ strengthTensor.detector.term = <<2, 2>>
    /\ strengthTensor.detector.cells[<<0, 0>>] = [w |-> 1, g |-> 0]
    /\ strengthTensor.detector.cells[<<1, 1>>] = [w |-> 1, g |-> -2]
    /\ strengthTensor.detector.cells[<<0, 1>>].w = 0
    /\ strengthTensor.detector.cells[<<1, 0>>].w = 0
    /\ avgInteractionStrength.num = 0

\* an XOR-like target: the strength returned is positive
C21_WitnessXor ==
    /\ StrengthReturned
    /\ strengthTensor.detector.term = <<2, 2>>
    /\ \A t \in DOMAIN strengthTensor.detector.cells :
          strengthTensor.detector.cells[t] =
              [w |-> 1, g |-> IF t[1] = t[2] THEN 0 ELSE -1]
    /\ avgInteractionStrength.num > 0

====
